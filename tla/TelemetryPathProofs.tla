------------------------ MODULE TelemetryPathProofs -------------------------
(***************************************************************************)
(* A frame's way from GNU Radio to the server, for all frames, numbers of  *)
(* frames, sizes of packets and of buffers.                                *)
(***************************************************************************)
EXTENDS TelemetryPath, SequenceTheorems, TLAPS

-----------------------------------------------------------------------------
(* The inductive invariant of the first half: what the decoders hold.      *)

BlockType == [escaping : BOOLEAN, buffer : Seq(Byte), out : Seq(Seq(Byte))]

DecoderType ==
  [InEscMode : BOOLEAN, DataBuf : Seq(Byte), DecodedLength : Nat, out : Seq(Seq(Byte))]

KissType ==
  /\ count \in 0 .. MaxFrames
  /\ pc \in {"frame", "idle", "broken"}
  /\ frame \in Seq(Byte) /\ Len(frame) <= BufLen
  /\ at \in 1 .. Len(frame) + 1
  /\ escaped \in BOOLEAN /\ size \in Nat
  /\ block \in BlockType /\ lilac \in DecoderType /\ dslwp \in DecoderType
  /\ returned \in BOOLEAN /\ merged \in BOOLEAN /\ missed \in BOOLEAN

EncoderInv ==
  /\ pc = "idle" => frame = <<>>
  /\ escaped => at \in 1 .. Len(frame) /\ frame[at] \in {FEND, FESC}

\* The decoder of the blocks has what arrived.
BlockInv == block.buffer = Received /\ block.escaping = escaped

\* That of the LilacSat-1 proxy has it too, perhaps behind what it had before.
LilacInv ==
  /\ lilac.InEscMode = escaped
  /\ EndsIn(lilac.DataBuf, Received)
  /\ lilac.DecodedLength >= Len(lilac.DataBuf)
  /\ ~merged => lilac.DataBuf = Received /\ lilac.DecodedLength = Len(Received)

\* That of the DSLWP proxy has it if it looked at it.  It never returns within
\* an escape, and never takes an escape for one that the encoder does not.
DslwpInv ==
  /\ dslwp.InEscMode => escaped /\ ~returned
  /\ ~missed => /\ dslwp.InEscMode = escaped
                /\ dslwp.DataBuf = Received
                /\ dslwp.DecodedLength = Len(Received)

KissInv == KissType /\ EncoderInv /\ BlockInv /\ LilacInv /\ DslwpInv

-----------------------------------------------------------------------------
(* Sequences.                                                              *)

LEMMA AppendFacts ==
  ASSUME NEW S, NEW s \in Seq(S), NEW x \in S
  PROVE  /\ Append(s, x) \in Seq(S) /\ Append(s, x) # <<>> /\ Append(s, x) # s
         /\ Len(s) \in Nat /\ Len(Append(s, x)) = Len(s) + 1
         /\ \A k \in 1 .. Len(s) : Append(s, x)[k] = s[k]
         /\ Append(s, x)[Len(s) + 1] = x
         /\ s \o <<x>> = Append(s, x)
         /\ s \o <<>> = s
  OBVIOUS

LEMMA EmptyFacts ==
  ASSUME NEW S
  PROVE  /\ <<>> \in Seq(S) /\ Len(<<>>) = 0
         /\ \A s \in Seq(S) : s = <<>> <=> Len(s) = 0
  OBVIOUS

\* What has arrived, one character later.
LEMMA PrefixFacts ==
  ASSUME NEW S, NEW s \in Seq(S), NEW n \in 1 .. Len(s)
  PROVE  /\ SubSeq(s, 1, n - 1) \in Seq(S)
         /\ Len(SubSeq(s, 1, n - 1)) = n - 1
         /\ SubSeq(s, 1, (n + 1) - 1) = Append(SubSeq(s, 1, n - 1), s[n])
  OBVIOUS

LEMMA WholePrefix ==
  ASSUME NEW S, NEW s \in Seq(S)
  PROVE  SubSeq(s, 1, (Len(s) + 1) - 1) = s /\ SubSeq(s, 1, 1 - 1) = <<>>
  OBVIOUS

LEMMA ReceivedFacts ==
  ASSUME KissType
  PROVE  Received \in Seq(Byte) /\ Len(Received) = at - 1
  BY DEF KissType, Received

-----------------------------------------------------------------------------
(* What the decoders make of a byte.                                       *)

LEMMA BlockEnd ==
  ASSUME NEW d \in BlockType
  PROVE  LET e == kiss_rx_byte(d, FEND)
         IN  /\ e \in BlockType
             /\ e.escaping = FALSE /\ e.buffer = <<>>
             /\ e.out = IF d.escaping \/ d.buffer = <<>> THEN d.out
                        ELSE Append(d.out, d.buffer)
  <1> DEFINE e == kiss_rx_byte(d, FEND)
  <1>0. PICK o : o = IF d.buffer = <<>> THEN d.out ELSE Append(d.out, d.buffer)
    OBVIOUS
  <1>1. d.escaping \in BOOLEAN /\ d.buffer \in Seq(Byte) /\ d.out \in Seq(Seq(Byte))
    BY DEF BlockType
  <1>2. PICK x : x = <<>> /\ x \in Seq(Byte)
    BY EmptyFacts
  <1>3. o \in Seq(Seq(Byte))
    BY <1>0, <1>1, AppendFacts
  <1>4. CASE d.escaping
    <2>1. e = [d EXCEPT !.escaping = FALSE, !.buffer = x]
      BY <1>2, <1>4 DEF kiss_rx_byte, FEND, FESC, TFEND, TFESC
    <2> HIDE DEF e
    <2>2. e \in BlockType
      BY <1>2, <2>1 DEF BlockType
    <2>3. e.escaping = FALSE /\ e.buffer = x /\ e.out = d.out
      BY <2>1 DEF BlockType
    <2> QED BY <1>2, <1>4, <2>2, <2>3 DEF e
  <1>5. CASE ~d.escaping
    <2>2. e = [d EXCEPT !.buffer = x, !.out = o]
      BY <1>2, <1>5, <1>0 DEF kiss_rx_byte, FEND, FESC, TFEND, TFESC
    <2> HIDE DEF e
    <2>3. e \in BlockType
      BY <1>2, <1>3, <2>2 DEF BlockType
    <2>4. e.escaping = FALSE /\ e.buffer = x /\ e.out = o
      BY <1>5, <2>2 DEF BlockType
    <2> QED BY <1>0, <1>2, <1>5, <2>3, <2>4 DEF e
  <1> QED BY <1>4, <1>5

LEMMA BlockPlain ==
  ASSUME NEW d \in BlockType, ~d.escaping, NEW b \in Byte, b \notin {FEND, FESC}
  PROVE  LET e == kiss_rx_byte(d, b)
         IN  /\ e \in BlockType
             /\ e.escaping = FALSE /\ e.buffer = Append(d.buffer, b) /\ e.out = d.out
  <1> DEFINE e == kiss_rx_byte(d, b)
  <1>1. PICK x : x = Append(d.buffer, b)
    OBVIOUS
  <1>2. x \in Seq(Byte)
    BY <1>1, AppendFacts DEF BlockType
  <1>3. e = [d EXCEPT !.buffer = x]
    BY <1>1 DEF kiss_rx_byte, FEND, FESC, TFEND, TFESC
  <1> HIDE DEF e
  <1>4. e \in BlockType
    BY <1>2, <1>3 DEF BlockType
  <1>5. e.escaping = FALSE /\ e.buffer = x /\ e.out = d.out
    BY <1>3 DEF BlockType
  <1> QED BY <1>1, <1>4, <1>5 DEF e

LEMMA BlockEscape ==
  ASSUME NEW d \in BlockType, ~d.escaping
  PROVE  LET e == kiss_rx_byte(d, FESC)
         IN  /\ e \in BlockType
             /\ e.escaping = TRUE /\ e.buffer = d.buffer /\ e.out = d.out
  <1>1. kiss_rx_byte(d, FESC) = [d EXCEPT !.escaping = TRUE]
    BY DEF kiss_rx_byte, FEND, FESC, TFEND, TFESC
  <1> QED BY <1>1 DEF BlockType

\* What stands behind an escape for the character c.
Code(c) == IF c = FEND THEN TFEND ELSE TFESC

LEMMA BlockEscaped ==
  ASSUME NEW d \in BlockType, d.escaping, NEW c \in {FEND, FESC}
  PROVE  LET e == kiss_rx_byte(d, Code(c))
         IN  /\ e \in BlockType
             /\ e.escaping = FALSE /\ e.buffer = Append(d.buffer, c) /\ e.out = d.out
  <1> DEFINE e == kiss_rx_byte(d, Code(c))
  <1>1. PICK x : x = Append(d.buffer, c)
    OBVIOUS
  <1>2. x \in Seq(Byte)
    BY <1>1, AppendFacts DEF BlockType, FEND, FESC, Byte
  <1>3. e = [d EXCEPT !.escaping = FALSE, !.buffer = x]
    <2>1. CASE c = FEND
      BY <1>1, <2>1 DEF kiss_rx_byte, Code, FEND, FESC, TFEND, TFESC
    <2>2. CASE c = FESC
      BY <1>1, <2>2 DEF kiss_rx_byte, Code, FEND, FESC, TFEND, TFESC
    <2> QED BY <2>1, <2>2
  <1> HIDE DEF e
  <1>4. e \in BlockType
    BY <1>2, <1>3 DEF BlockType
  <1>5. e.escaping = FALSE /\ e.buffer = x /\ e.out = d.out
    BY <1>3 DEF BlockType
  <1> QED BY <1>1, <1>4, <1>5 DEF e

LEMMA DecoderEnd ==
  ASSUME NEW d \in DecoderType
  PROVE  LET e == AppendByte(d, FEND)
         IN  /\ e \in DecoderType
             /\ e.InEscMode = FALSE
             /\ d.InEscMode => /\ e.DataBuf = d.DataBuf /\ e.out = d.out
                               /\ e.DecodedLength = d.DecodedLength + 1
             /\ ~d.InEscMode =>
                  /\ e.DataBuf = <<>> /\ e.DecodedLength = 0
                  /\ e.out = IF d.DecodedLength = 0 THEN d.out ELSE Append(d.out, d.DataBuf)
  <1> DEFINE e == AppendByte(d, FEND)
  <1>0. PICK o : o = IF d.DecodedLength = 0 THEN d.out ELSE Append(d.out, d.DataBuf)
    OBVIOUS
  <1>1. /\ d.InEscMode \in BOOLEAN /\ d.DataBuf \in Seq(Byte)
        /\ d.DecodedLength \in Nat /\ d.out \in Seq(Seq(Byte))
    BY DEF DecoderType
  <1>2. PICK x : x = <<>> /\ x \in Seq(Byte)
    BY EmptyFacts
  <1>3. o \in Seq(Seq(Byte))
    BY <1>0, <1>1, AppendFacts
  <1>4. CASE d.InEscMode
    <2>3. PICK n : n = d.DecodedLength + 1 /\ n \in Nat
      BY <1>1
    <2>1. e = [d EXCEPT !.InEscMode = FALSE, !.DecodedLength = n, !.DataBuf = d.DataBuf]
      BY <1>4, <2>3 DEF AppendByte, FEND, FESC, TFEND, TFESC
    <2> HIDE DEF e
    <2>2. e \in DecoderType
      BY <1>1, <2>1, <2>3 DEF DecoderType
    <2> QED BY <1>4, <2>1, <2>2, <2>3 DEF e, DecoderType
  <1>5. CASE ~d.InEscMode
    <2>2. e = [d EXCEPT !.DataBuf = x, !.DecodedLength = 0, !.out = o]
      BY <1>0, <1>2, <1>5 DEF AppendByte, FEND, FESC, TFEND, TFESC
    <2> HIDE DEF e
    <2>3. e \in DecoderType
      BY <1>2, <1>3, <2>2 DEF DecoderType
    <2>4. e.InEscMode = FALSE /\ e.DataBuf = x /\ e.DecodedLength = 0 /\ e.out = o
      BY <1>5, <2>2 DEF DecoderType
    <2> QED BY <1>0, <1>2, <1>5, <2>3, <2>4 DEF e
  <1> QED BY <1>4, <1>5

LEMMA DecoderPlain ==
  ASSUME NEW d \in DecoderType, ~d.InEscMode, NEW b \in Byte, b \notin {FEND, FESC}
  PROVE  LET e == AppendByte(d, b)
         IN  /\ e \in DecoderType
             /\ e.InEscMode = FALSE /\ e.DataBuf = Append(d.DataBuf, b)
             /\ e.DecodedLength = d.DecodedLength + 1 /\ e.out = d.out
  <1> DEFINE e == AppendByte(d, b)
  <1>1. PICK x : x = Append(d.DataBuf, b)
    OBVIOUS
  <1>6. PICK n : n = d.DecodedLength + 1 /\ n \in Nat
    BY DEF DecoderType
  <1>2. x \in Seq(Byte)
    BY <1>1, AppendFacts DEF DecoderType
  <1>3. e = [d EXCEPT !.DataBuf = x, !.DecodedLength = n]
    BY <1>1, <1>6 DEF AppendByte, FEND, FESC, TFEND, TFESC
  <1> HIDE DEF e
  <1>4. e \in DecoderType
    BY <1>2, <1>3, <1>6 DEF DecoderType
  <1>5. /\ e.InEscMode = FALSE /\ e.DataBuf = x
        /\ e.DecodedLength = d.DecodedLength + 1 /\ e.out = d.out
    BY <1>3, <1>6 DEF DecoderType
  <1> QED BY <1>1, <1>4, <1>5 DEF e

LEMMA DecoderEscape ==
  ASSUME NEW d \in DecoderType, ~d.InEscMode
  PROVE  LET e == AppendByte(d, FESC)
         IN  /\ e \in DecoderType
             /\ e.InEscMode = TRUE /\ e.DataBuf = d.DataBuf
             /\ e.DecodedLength = d.DecodedLength /\ e.out = d.out
  <1>1. AppendByte(d, FESC) = [d EXCEPT !.InEscMode = TRUE]
    BY DEF AppendByte, FEND, FESC, TFEND, TFESC
  <1> QED BY <1>1 DEF DecoderType

LEMMA DecoderEscaped ==
  ASSUME NEW d \in DecoderType, d.InEscMode, NEW c \in {FEND, FESC}
  PROVE  LET e == AppendByte(d, Code(c))
         IN  /\ e \in DecoderType
             /\ e.InEscMode = FALSE /\ e.DataBuf = Append(d.DataBuf, c)
             /\ e.DecodedLength = d.DecodedLength + 1 /\ e.out = d.out
  <1> DEFINE e == AppendByte(d, Code(c))
  <1>1. PICK x : x = Append(d.DataBuf, c)
    OBVIOUS
  <1>6. PICK n : n = d.DecodedLength + 1 /\ n \in Nat
    BY DEF DecoderType
  <1>2. x \in Seq(Byte)
    BY <1>1, AppendFacts DEF DecoderType, FEND, FESC, Byte
  <1>3. e = [d EXCEPT !.InEscMode = FALSE, !.DecodedLength = n, !.DataBuf = x]
    <2>1. CASE c = FEND
      BY <1>1, <1>6, <2>1 DEF AppendByte, Code, FEND, FESC, TFEND, TFESC
    <2>2. CASE c = FESC
      BY <1>1, <1>6, <2>2 DEF AppendByte, Code, FEND, FESC, TFEND, TFESC
    <2> QED BY <2>1, <2>2
  <1> HIDE DEF e
  <1>4. e \in DecoderType
    BY <1>2, <1>3, <1>6 DEF DecoderType
  <1>5. /\ e.InEscMode = FALSE /\ e.DataBuf = x
        /\ e.DecodedLength = d.DecodedLength + 1 /\ e.out = d.out
    BY <1>3, <1>6 DEF DecoderType
  <1> QED BY <1>1, <1>4, <1>5 DEF e

\* Behind an escape a decoder goes on without one, whatever comes, and completes
\* no frame.
LEMMA DecoderLeaves ==
  ASSUME NEW d \in DecoderType, d.InEscMode, NEW b \in Byte
  PROVE  LET e == AppendByte(d, b)
         IN  e \in DecoderType /\ e.InEscMode = FALSE /\ e.out = d.out
  <1> DEFINE e == AppendByte(d, b)
  <1>1. PICK x : x = CASE b = TFEND -> Append(d.DataBuf, FEND)
                       [] b = TFESC -> Append(d.DataBuf, FESC)
                       [] b \notin {TFEND, TFESC} -> d.DataBuf
    OBVIOUS
  <1>6. PICK n : n = d.DecodedLength + 1 /\ n \in Nat
    BY DEF DecoderType
  <1>2. x \in Seq(Byte)
    BY <1>1, AppendFacts DEF DecoderType, FEND, FESC, Byte
  <1>3. e = [d EXCEPT !.InEscMode = FALSE, !.DecodedLength = n, !.DataBuf = x]
    BY <1>1, <1>6 DEF AppendByte
  <1> HIDE DEF e
  <1>4. e \in DecoderType
    BY <1>2, <1>3, <1>6 DEF DecoderType
  <1>5. e.InEscMode = FALSE /\ e.out = d.out
    BY <1>3, <1>6 DEF DecoderType
  <1> QED BY <1>4, <1>5 DEF e

\* Whatever comes, a decoder is behind an escape only after a FESC, and adds one
\* frame at most.
LEMMA DecoderAny ==
  ASSUME NEW d \in DecoderType, NEW b \in Byte
  PROVE  LET e == AppendByte(d, b)
         IN  /\ e \in DecoderType
             /\ e.InEscMode => ~d.InEscMode /\ b = FESC /\ e.out = d.out
             /\ e.out = d.out \/ e.out = Append(d.out, d.DataBuf)
  <1>1. CASE d.InEscMode
    BY <1>1, DecoderLeaves
  <1>2. CASE ~d.InEscMode /\ b = FEND
    BY <1>2, DecoderEnd
  <1>3. CASE ~d.InEscMode /\ b = FESC
    BY <1>3, DecoderEscape
  <1>4. CASE ~d.InEscMode /\ b \notin {FEND, FESC}
    BY <1>4, DecoderPlain
  <1> QED BY <1>1, <1>2, <1>3, <1>4 DEF DecoderType

-----------------------------------------------------------------------------
(* The decoders keep what arrives.                                         *)

LEMMA EndsInFacts ==
  ASSUME NEW S, NEW s \in Seq(S), NEW t \in Seq(S), NEW x \in S
  PROVE  /\ EndsIn(s, <<>>)
         /\ EndsIn(s, s)
         /\ EndsIn(s, t) => EndsIn(Append(s, x), Append(t, x))
  <1>1. Len(<<>>) = 0 /\ DOMAIN <<>> = {} /\ DOMAIN s = 1 .. Len(s) /\ Len(s) \in Nat
    OBVIOUS
  <1>2. EndsIn(s, <<>>) /\ EndsIn(s, s)
    BY <1>1 DEF EndsIn
  <1>3. EndsIn(s, t) => EndsIn(Append(s, x), Append(t, x))
    <2>1. DOMAIN t = 1 .. Len(t) /\ DOMAIN Append(t, x) = 1 .. Len(t) + 1 /\ Len(t) \in Nat
      OBVIOUS
    <2> QED BY <1>1, <2>1, AppendFacts DEF EndsIn
  <1> QED BY <1>2, <1>3

\* The FEND that begins a frame, or ends it.
LEMMA BlockEnds ==
  ASSUME KissType, BlockInv, block' = kiss_rx_byte(block, FEND),
         Received' = <<>>, escaped' = FALSE
  PROVE  /\ block' \in BlockType /\ BlockInv'
         /\ block'.out = IF escaped \/ Received = <<>> THEN block.out
                         ELSE Append(block.out, Received)
  BY BlockEnd DEF KissType, BlockInv

LEMMA LilacEnds ==
  ASSUME KissType, LilacInv, lilac' = AppendByte(lilac, FEND),
         Received' = <<>>, escaped' = FALSE, ~escaped
  PROVE  /\ lilac' \in DecoderType /\ LilacInv'
         /\ lilac'.out = lilac.out \/ lilac'.out = Append(lilac.out, lilac.DataBuf)
         /\ Received # <<>> => lilac'.out = Append(lilac.out, lilac.DataBuf)
         /\ ~merged /\ Received = <<>> => lilac'.out = lilac.out
  <1>1. /\ lilac' \in DecoderType /\ lilac'.InEscMode = FALSE
        /\ lilac'.DataBuf = <<>> /\ lilac'.DecodedLength = 0
        /\ lilac'.out = IF lilac.DecodedLength = 0 THEN lilac.out
                        ELSE Append(lilac.out, lilac.DataBuf)
    BY DecoderEnd DEF KissType, LilacInv
  <1>2. EndsIn(<<>>, <<>>) /\ Len(<<>>) = 0
    BY EndsInFacts, EmptyFacts DEF EndsIn
  <1>3. LilacInv'
    <2>1. lilac'.DecodedLength >= Len(lilac'.DataBuf)
      BY <1>1, <1>2
    <2>2. EndsIn(lilac'.DataBuf, Received')
      BY <1>1, <1>2
    <2>3. lilac'.DecodedLength = Len(Received')
      BY <1>1, <1>2
    <2> QED BY <1>1, <2>1, <2>2, <2>3 DEF LilacInv
  <1>4. Received # <<>> => lilac.DecodedLength # 0
    <2>1. lilac.DecodedLength \in Nat /\ Len(lilac.DataBuf) \in Nat /\ Len(Received) \in Nat
      BY ReceivedFacts DEF KissType, DecoderType
    <2>2. Received # <<>> => Len(Received) # 0
      BY ReceivedFacts, EmptyFacts
    <2>3. lilac.DecodedLength >= Len(lilac.DataBuf) /\ Len(lilac.DataBuf) >= Len(Received)
      BY DEF LilacInv, EndsIn
    <2> QED BY <2>1, <2>2, <2>3
  <1>5. ~merged /\ Received = <<>> => lilac.DecodedLength = 0
    BY EmptyFacts DEF LilacInv
  <1> QED BY <1>1, <1>3, <1>4, <1>5

\* A FEND that is a wrong character behind an escape.
LEMMA LilacMerges ==
  ASSUME KissType, LilacInv, lilac' = AppendByte(lilac, FEND),
         Received' = <<>>, escaped' = FALSE, escaped, merged' = TRUE
  PROVE  lilac' \in DecoderType /\ LilacInv' /\ lilac'.out = lilac.out
  <1>1. /\ lilac' \in DecoderType /\ lilac'.InEscMode = FALSE
        /\ lilac'.DataBuf = lilac.DataBuf /\ lilac'.out = lilac.out
        /\ lilac'.DecodedLength = lilac.DecodedLength + 1
    BY DecoderEnd DEF KissType, LilacInv
  <1>2. EndsIn(lilac.DataBuf, <<>>)
    <2>1. 0 \in Byte
      BY DEF Byte
    <2> QED BY <2>1, EndsInFacts DEF KissType, DecoderType
  <1>3. lilac.DecodedLength + 1 >= Len(lilac.DataBuf)
    BY DEF LilacInv, KissType, DecoderType
  <1> QED BY <1>1, <1>2, <1>3 DEF LilacInv

\* The decoder of the DSLWP proxy, whatever comes.
LEMMA DslwpAny ==
  ASSUME KissType, DslwpInv, NEW b \in Byte, Deliver(b)
  PROVE  /\ dslwp' \in DecoderType /\ returned' \in BOOLEAN
         /\ dslwp'.InEscMode => ~returned' /\ b = FESC
  <1>1. CASE returned
    BY <1>1 DEF Deliver, DslwpInv, KissType
  <1>2. CASE ~returned
    BY <1>2, DecoderAny DEF Deliver, DslwpInv, KissType
  <1> QED BY <1>1, <1>2 DEF KissType

LEMMA DslwpEnds ==
  ASSUME KissType, DslwpInv, Deliver(FEND), ~returned, ~escaped
  PROVE  /\ dslwp'.InEscMode = FALSE /\ dslwp'.DataBuf = <<>> /\ dslwp'.DecodedLength = 0
         /\ ~missed => dslwp'.out = IF Received = <<>> THEN dslwp.out
                                    ELSE Append(dslwp.out, Received)
  <1>1. ~dslwp.InEscMode /\ dslwp' = AppendByte(dslwp, FEND)
    BY DEF DslwpInv, Deliver
  <1>2. ~missed => (dslwp.DecodedLength = 0 <=> Received = <<>>)
    BY ReceivedFacts, EmptyFacts DEF DslwpInv
  <1> QED BY <1>1, <1>2, DecoderEnd DEF DslwpInv, KissType

-----------------------------------------------------------------------------
(* One step of the first half keeps the invariant, and puts out what it    *)
(* should.                                                                 *)

LEMMA DueFacts ==
  ASSUME NEW s \in Seq(Seq(Byte)), NEW r \in Seq(Byte)
  PROVE  /\ s \o <<r>> = Append(s, r) /\ s \o <<>> = s
         /\ <<r>> # <<>>
         /\ Len(Append(s, r)) = Len(s) + 1 /\ Append(s, r)[Len(Append(s, r))] = r
  BY AppendFacts

LEMMA Joined ==
  ASSUME NEW s \in Seq(Seq(Byte)), NEW r \in Seq(Byte), NEW d, NEW e,
         r # <<>> => d = <<r>> /\ e = Append(s, r),
         r = <<>> => d = <<>> /\ e = s
  PROVE  e = s \o d
  <1>1. CASE r = <<>>
    BY <1>1, DueFacts
  <1>2. CASE r # <<>>
    BY <1>2, DueFacts
  <1> QED BY <1>1, <1>2

\* A step in which no FEND ends anything.
LEMMA NothingDue ==
  ASSUME KissType, ~Ends, block'.out = block.out, lilac'.out = lilac.out,
         ~missed /\ ~returned => dslwp'.out = dslwp.out
  PROVE  WholeStep
  <1>1. Due = <<>>
    BY DEF Due
  <1>2. \A s \in Seq(Seq(Byte)) : s \o <<>> = s
    OBVIOUS
  <1>3. /\ block.out \in Seq(Seq(Byte)) /\ lilac.out \in Seq(Seq(Byte))
        /\ dslwp.out \in Seq(Seq(Byte))
    BY DEF KissType, BlockType, DecoderType
  <1> QED BY <1>1, <1>2, <1>3 DEF WholeStep

LEMMA OpenStep ==
  ASSUME KissInv, NEW f \in Frames, Open(f)
  PROVE  KissInv' /\ WholeStep
  <1> USE DEF KissInv
  <1>1. f \in Seq(Byte) /\ Len(f) <= BufLen /\ Len(f) \in Nat
    BY FramesAssumption
  <1>2. Received' = <<>>
    BY <1>1, WholePrefix DEF Open, Received
  <1>3. escaped' = FALSE /\ FEND \in Byte
    BY DEF Open, FEND, Byte
  <1>4. /\ block' = kiss_rx_byte(block, FEND) /\ lilac' = AppendByte(lilac, FEND)
        /\ Deliver(FEND)
    BY DEF Open, Deliver
  <1>5. Received \in Seq(Byte) /\ (pc = "idle" => Received = <<>> /\ ~escaped)
    <2>1. pc = "idle" => Len(frame) = 0 /\ at = 1 /\ ~escaped
      BY EmptyFacts DEF KissType, EncoderInv
    <2> QED BY <2>1, ReceivedFacts, EmptyFacts DEF KissType
  <1>6. Due = IF ~escaped /\ Received # <<>> THEN <<Received>> ELSE <<>>
    BY <1>5 DEF Open, Due, Ends, KissType
  <1>7. /\ block' \in BlockType /\ BlockInv'
        /\ block'.out = IF escaped \/ Received = <<>> THEN block.out
                        ELSE Append(block.out, Received)
    BY <1>2, <1>3, <1>4, BlockEnds
  <1>8. /\ lilac' \in DecoderType /\ LilacInv'
        /\ escaped => lilac'.out = lilac.out
        /\ ~escaped => /\ Received # <<>> => lilac'.out = Append(lilac.out, lilac.DataBuf)
                       /\ ~merged /\ Received = <<>> => lilac'.out = lilac.out
    <2>1. CASE escaped
      BY <1>2, <1>3, <1>4, <2>1, LilacMerges DEF Open
    <2>2. CASE ~escaped
      BY <1>2, <1>3, <1>4, <2>2, LilacEnds
    <2> QED BY <2>1, <2>2
  <1>9. dslwp' \in DecoderType /\ returned' \in BOOLEAN /\ ~dslwp'.InEscMode
    BY <1>3, <1>4, DslwpAny DEF FEND, FESC
  <1>10. DslwpInv'
    <2>1. CASE escaped \/ returned
      BY <1>9, <2>1 DEF DslwpInv, Open, KissType
    <2>2. CASE ~escaped /\ ~returned
      <3>1. /\ dslwp'.InEscMode = FALSE /\ dslwp'.DataBuf = <<>>
            /\ dslwp'.DecodedLength = 0
        BY <1>4, <2>2, DslwpEnds
      <3> QED BY <1>2, <1>3, <3>1, EmptyFacts DEF DslwpInv
    <2> QED BY <2>1, <2>2
  <1>11. KissType' /\ EncoderInv'
    <2>1. /\ count' \in 0 .. MaxFrames /\ pc' = "frame" /\ size' \in Nat
          /\ frame' = f /\ at' = 1 /\ 1 \in 1 .. Len(f) + 1
      BY <1>1, KissAssumption DEF Open, KissType
    <2>2. merged' \in BOOLEAN /\ missed' \in BOOLEAN
      BY DEF Open, KissType
    <2> QED BY <1>1, <1>3, <1>7, <1>8, <1>9, <2>1, <2>2 DEF KissType, EncoderInv
  <1>12. WholeStep
    <2>1. /\ block.out \in Seq(Seq(Byte)) /\ lilac.out \in Seq(Seq(Byte))
          /\ dslwp.out \in Seq(Seq(Byte)) /\ lilac.DataBuf \in Seq(Byte)
      BY DEF KissType, BlockType, DecoderType
    <2>2. block'.out = block.out \o Due
      BY <1>5, <1>6, <1>7, <2>1, DueFacts
    <2>3. ~merged => lilac'.out = lilac.out \o Due
      <3>1. ~merged => lilac.DataBuf = Received
        BY DEF LilacInv
      <3>2. CASE ~escaped /\ Received # <<>>
        <4>1. Due = <<Received>>
          BY <1>6, <3>2
        <4>2. ~merged => lilac'.out = Append(lilac.out, Received)
          BY <1>8, <3>1, <3>2
        <4>3. lilac.out \o <<Received>> = Append(lilac.out, Received)
          BY <1>5, <2>1, DueFacts
        <4> QED BY <4>1, <4>2, <4>3
      <3>3. CASE escaped \/ Received = <<>>
        <4>3. Due = <<>>
          <5>1. CASE escaped
            BY <1>6, <5>1
          <5>2. CASE Received = <<>>
            BY <1>6, <5>2
          <5> QED BY <3>3, <5>1, <5>2
        <4>1. ~merged => lilac'.out = lilac.out
          BY <1>8, <3>3
        <4>2. lilac.out \o <<>> = lilac.out
          BY <2>1
        <4> QED BY <4>1, <4>2, <4>3
      <3> QED BY <3>2, <3>3
    <2>4. Due # <<>> => /\ Len(lilac'.out) = Len(lilac.out) + 1
                        /\ EndsIn(lilac'.out[Len(lilac'.out)], Received)
      BY <1>5, <1>6, <1>8, <2>1, DueFacts DEF LilacInv
    <2>5. ~missed /\ ~returned => dslwp'.out = dslwp.out \o Due
      <3> SUFFICES ASSUME ~missed, ~returned PROVE dslwp'.out = dslwp.out \o Due
        OBVIOUS
      <3>1. CASE ~escaped
        BY <1>4, <1>5, <1>6, <2>1, <3>1, DslwpEnds, DueFacts
      <3>2. CASE escaped
        <4>1. dslwp.InEscMode /\ dslwp' = AppendByte(dslwp, FEND) /\ Due = <<>>
          BY <1>4, <1>6, <3>2 DEF DslwpInv, Deliver
        <4>2. dslwp'.out = dslwp.out
          BY <1>3, <4>1, DecoderLeaves DEF KissType
        <4> QED BY <2>1, <4>1, <4>2
      <3> QED BY <3>1, <3>2
    <2> QED BY <2>2, <2>3, <2>4, <2>5 DEF WholeStep
  <1> QED BY <1>7, <1>8, <1>10, <1>11, <1>12

\* A character has arrived.
LEMMA Grows ==
  ASSUME KissType, BlockInv, LilacInv, DslwpInv, NEW c \in Byte,
         Received' = Append(Received, c), escaped' = FALSE,
         merged' = merged, missed' = (missed \/ returned),
         block'.escaping = FALSE, block'.buffer = Append(block.buffer, c),
         lilac'.InEscMode = FALSE, lilac'.DataBuf = Append(lilac.DataBuf, c),
         lilac'.DecodedLength = lilac.DecodedLength + 1,
         dslwp'.InEscMode = FALSE,
         ~missed /\ ~returned =>
           /\ dslwp'.DataBuf = Append(dslwp.DataBuf, c)
           /\ dslwp'.DecodedLength = dslwp.DecodedLength + 1
  PROVE  BlockInv' /\ LilacInv' /\ DslwpInv'
  <1>1. /\ Received \in Seq(Byte) /\ Len(Append(Received, c)) = Len(Received) + 1
        /\ lilac.DataBuf \in Seq(Byte)
        /\ Len(Append(lilac.DataBuf, c)) = Len(lilac.DataBuf) + 1
        /\ Len(lilac.DataBuf) \in Nat /\ lilac.DecodedLength \in Nat
    BY ReceivedFacts DEF KissType, DecoderType
  <1>2. BlockInv'
    BY DEF BlockInv
  <1>3. EndsIn(Append(lilac.DataBuf, c), Append(Received, c))
    BY <1>1, EndsInFacts DEF LilacInv
  <1>4. lilac'.DecodedLength >= Len(lilac'.DataBuf)
    BY <1>1 DEF LilacInv
  <1>5. LilacInv'
    BY <1>1, <1>3, <1>4 DEF LilacInv
  <1>6. DslwpInv'
    BY <1>1 DEF DslwpInv
  <1> QED BY <1>2, <1>5, <1>6

LEMMA PlainStep ==
  ASSUME KissInv, Plain
  PROVE  KissInv' /\ WholeStep
  <1> USE DEF KissInv
  <1>1. PICK c : c = frame[at]
    OBVIOUS
  <1>2. at \in 1 .. Len(frame) /\ c \in Byte /\ c \notin {FEND, FESC} /\ ~escaped
    BY <1>1 DEF Plain, KissType, EncoderInv
  <1>3. Received' = Append(Received, c)
    BY <1>1, <1>2, PrefixFacts DEF Plain, Received, KissType
  <1>4. Deliver(c) /\ escaped' = FALSE /\ merged' = merged /\ missed' = (missed \/ returned)
    BY <1>1, <1>2 DEF Plain, More, KissType
  <1>5. /\ block' \in BlockType /\ block'.escaping = FALSE
        /\ block'.buffer = Append(block.buffer, c) /\ block'.out = block.out
    BY <1>2, <1>4, BlockPlain DEF Deliver, BlockInv, KissType
  <1>6. /\ lilac' \in DecoderType /\ lilac'.InEscMode = FALSE
        /\ lilac'.DataBuf = Append(lilac.DataBuf, c)
        /\ lilac'.DecodedLength = lilac.DecodedLength + 1 /\ lilac'.out = lilac.out
    BY <1>2, <1>4, DecoderPlain DEF Deliver, LilacInv, KissType
  <1>7. dslwp' \in DecoderType /\ returned' \in BOOLEAN /\ dslwp'.InEscMode = FALSE
    BY <1>2, <1>4, DslwpAny DEF DecoderType
  <1>8. ~missed /\ ~returned =>
          /\ dslwp'.DataBuf = Append(dslwp.DataBuf, c)
          /\ dslwp'.DecodedLength = dslwp.DecodedLength + 1 /\ dslwp'.out = dslwp.out
    BY <1>2, <1>4, DecoderPlain DEF Deliver, DslwpInv, KissType
  <1>9. BlockInv' /\ LilacInv' /\ DslwpInv'
    BY <1>2, <1>3, <1>4, <1>5, <1>6, <1>7, <1>8, Grows
  <1>10. KissType' /\ EncoderInv'
    BY <1>2, <1>4, <1>5, <1>6, <1>7 DEF KissType, EncoderInv, Plain, More
  <1>11. WholeStep
    BY <1>5, <1>6, <1>8, NothingDue DEF Ends, Plain, More
  <1> QED BY <1>9, <1>10, <1>11

LEMMA EscapedStep ==
  ASSUME KissInv, Escaped
  PROVE  KissInv' /\ WholeStep
  <1> USE DEF KissInv
  <1>1. PICK c : c = frame[at]
    OBVIOUS
  <1>2. /\ at \in 1 .. Len(frame) /\ c \in {FEND, FESC} /\ c \in Byte
        /\ Code(c) \in Byte /\ Code(c) # FESC
    BY <1>1 DEF Escaped, KissType, EncoderInv, Code, FEND, FESC, TFEND, TFESC, Byte
  <1>3. Received' = Append(Received, c)
    BY <1>1, <1>2, PrefixFacts DEF Escaped, Received, KissType
  <1>4. /\ Deliver(Code(c)) /\ escaped /\ escaped' = FALSE
        /\ merged' = merged /\ missed' = (missed \/ returned)
    BY <1>1, <1>2 DEF Escaped, More, KissType, Code
  <1>5. /\ block' \in BlockType /\ block'.escaping = FALSE
        /\ block'.buffer = Append(block.buffer, c) /\ block'.out = block.out
    BY <1>2, <1>4, BlockEscaped DEF Deliver, BlockInv, KissType
  <1>6. /\ lilac' \in DecoderType /\ lilac'.InEscMode = FALSE
        /\ lilac'.DataBuf = Append(lilac.DataBuf, c)
        /\ lilac'.DecodedLength = lilac.DecodedLength + 1 /\ lilac'.out = lilac.out
    BY <1>2, <1>4, DecoderEscaped DEF Deliver, LilacInv, KissType
  <1>7. dslwp' \in DecoderType /\ returned' \in BOOLEAN /\ dslwp'.InEscMode = FALSE
    BY <1>2, <1>4, DslwpAny DEF DecoderType
  <1>8. ~missed /\ ~returned =>
          /\ dslwp'.DataBuf = Append(dslwp.DataBuf, c)
          /\ dslwp'.DecodedLength = dslwp.DecodedLength + 1 /\ dslwp'.out = dslwp.out
    BY <1>2, <1>4, DecoderEscaped DEF Deliver, DslwpInv, KissType
  <1>9. BlockInv' /\ LilacInv' /\ DslwpInv'
    BY <1>2, <1>3, <1>4, <1>5, <1>6, <1>7, <1>8, Grows
  <1>10. KissType' /\ EncoderInv'
    <2>1. /\ count' = count /\ pc' = pc /\ frame' = frame /\ at' = at + 1
          /\ size' = size + 1 /\ pc = "frame"
      BY DEF Escaped, More
    <2>2. merged' \in BOOLEAN /\ missed' \in BOOLEAN
      BY <1>4 DEF KissType
    <2>3. at' \in 1 .. Len(frame') + 1 /\ size' \in Nat
      BY <1>2, <2>1 DEF KissType
    <2>4. EncoderInv'
      BY <1>4, <2>1 DEF EncoderInv
    <2> QED BY <1>4, <1>5, <1>6, <1>7, <2>1, <2>2, <2>3, <2>4 DEF KissType
  <1>11. WholeStep
    BY <1>5, <1>6, <1>8, NothingDue DEF Ends, Escaped, More
  <1> QED BY <1>9, <1>10, <1>11

LEMMA EscapeStep ==
  ASSUME KissInv, Escape
  PROVE  KissInv' /\ WholeStep
  <1> USE DEF KissInv
  <1>1. Received' = Received /\ at \in 1 .. Len(frame) /\ FESC \in Byte
    BY DEF Escape, Received, KissType, FESC, Byte
  <1>2. /\ Deliver(FESC) /\ ~escaped /\ escaped' = TRUE
        /\ merged' = merged /\ missed' = (missed \/ returned)
    BY DEF Escape, More
  <1>3. /\ block' \in BlockType /\ block'.escaping = TRUE
        /\ block'.buffer = block.buffer /\ block'.out = block.out
    BY <1>2, BlockEscape DEF Deliver, BlockInv, KissType
  <1>4. /\ lilac' \in DecoderType /\ lilac'.InEscMode = TRUE
        /\ lilac'.DataBuf = lilac.DataBuf
        /\ lilac'.DecodedLength = lilac.DecodedLength /\ lilac'.out = lilac.out
    BY <1>2, DecoderEscape DEF Deliver, LilacInv, KissType
  <1>5. dslwp' \in DecoderType /\ returned' \in BOOLEAN /\ (dslwp'.InEscMode => ~returned')
    BY <1>1, <1>2, DslwpAny
  <1>6. ~missed /\ ~returned =>
          /\ dslwp'.InEscMode = TRUE /\ dslwp'.DataBuf = dslwp.DataBuf
          /\ dslwp'.DecodedLength = dslwp.DecodedLength /\ dslwp'.out = dslwp.out
    BY <1>2, DecoderEscape DEF Deliver, DslwpInv, KissType
  <1>7. BlockInv' /\ LilacInv' /\ DslwpInv'
    BY <1>1, <1>2, <1>3, <1>4, <1>5, <1>6 DEF BlockInv, LilacInv, DslwpInv
  <1>8. KissType' /\ EncoderInv'
    BY <1>1, <1>2, <1>3, <1>4, <1>5 DEF KissType, EncoderInv, Escape, More
  <1>9. WholeStep
    BY <1>3, <1>4, <1>6, NothingDue DEF Ends, Escape, More
  <1> QED BY <1>7, <1>8, <1>9

LEMMA CloseStep ==
  ASSUME KissInv, Close
  PROVE  KissInv' /\ WholeStep
  <1> USE DEF KissInv
  <1>1. /\ ~escaped /\ escaped' = FALSE /\ FEND \in Byte
        /\ merged' = merged /\ missed' = (missed \/ returned)
        /\ pc = "frame" /\ pc' = "idle"
    BY DEF Close, More, KissType, EncoderInv, FEND, Byte
  <1>2. Received' = <<>>
    BY EmptyFacts, WholePrefix DEF Close, Received
  <1>3. /\ block' = kiss_rx_byte(block, FEND) /\ lilac' = AppendByte(lilac, FEND)
        /\ Deliver(FEND)
    BY DEF Close, Deliver
  <1>4. /\ Received \in Seq(Byte)
        /\ Received # <<>> => Due = <<Received>>
        /\ Received = <<>> => Due = <<>>
    BY <1>1, ReceivedFacts DEF Due, Ends
  <1>5. /\ block' \in BlockType /\ BlockInv'
        /\ block'.out = IF Received = <<>> THEN block.out ELSE Append(block.out, Received)
    BY <1>1, <1>2, <1>3, BlockEnds
  <1>6. /\ lilac' \in DecoderType /\ LilacInv'
        /\ Received # <<>> => lilac'.out = Append(lilac.out, lilac.DataBuf)
        /\ ~merged /\ Received = <<>> => lilac'.out = lilac.out
    BY <1>1, <1>2, <1>3, LilacEnds
  <1>7. dslwp' \in DecoderType /\ returned' \in BOOLEAN /\ dslwp'.InEscMode = FALSE
    BY <1>1, <1>3, DslwpAny DEF FEND, FESC, DecoderType
  <1>8. ~missed /\ ~returned =>
          /\ dslwp'.DataBuf = <<>> /\ dslwp'.DecodedLength = 0
          /\ dslwp'.out = IF Received = <<>> THEN dslwp.out ELSE Append(dslwp.out, Received)
    BY <1>1, <1>3, DslwpEnds
  <1>9. DslwpInv'
    <2>1. Len(<<>>) = 0
      BY EmptyFacts
    <2>2. ~missed' => dslwp'.DataBuf = Received' /\ dslwp'.DecodedLength = Len(Received')
      BY <1>1, <1>2, <1>8, <2>1
    <2> QED BY <1>1, <1>7, <2>2 DEF DslwpInv
  <1>10. KissType' /\ EncoderInv'
    <2>1. /\ count' = count /\ size' = size + 1 /\ frame' = <<>> /\ at' = 1
          /\ Len(<<>>) = 0 /\ <<>> \in Seq(Byte)
      BY EmptyFacts DEF Close, More
    <2>2. merged' \in BOOLEAN /\ missed' \in BOOLEAN
      BY <1>1 DEF KissType
    <2>3. Len(frame') <= BufLen /\ at' \in 1 .. Len(frame') + 1 /\ size' \in Nat
      BY <2>1, KissAssumption DEF KissType
    <2> QED BY <1>1, <1>5, <1>6, <1>7, <2>1, <2>2, <2>3 DEF KissType, EncoderInv
  <1>11. WholeStep
    <2>1. /\ block.out \in Seq(Seq(Byte)) /\ lilac.out \in Seq(Seq(Byte))
          /\ dslwp.out \in Seq(Seq(Byte)) /\ lilac.DataBuf \in Seq(Byte)
      BY DEF KissType, BlockType, DecoderType
    <2>2. block'.out = block.out \o Due
      BY <1>4, <1>5, <2>1, Joined
    <2>3. ~merged => lilac'.out = lilac.out \o Due
      <3> SUFFICES ASSUME ~merged PROVE lilac'.out = lilac.out \o Due
        OBVIOUS
      <3>1. lilac.DataBuf = Received
        BY DEF LilacInv
      <3>2. Received # <<>> => lilac'.out = Append(lilac.out, Received)
        BY <1>6, <3>1
      <3> QED BY <1>4, <1>6, <2>1, <3>2, Joined
    <2>4. Due # <<>> => /\ Len(lilac'.out) = Len(lilac.out) + 1
                        /\ EndsIn(lilac'.out[Len(lilac'.out)], Received)
      BY <1>4, <1>6, <2>1, DueFacts DEF LilacInv
    <2>5. ~missed /\ ~returned => dslwp'.out = dslwp.out \o Due
      BY <1>4, <1>8, <2>1, Joined
    <2> QED BY <2>2, <2>3, <2>4, <2>5 DEF WholeStep
  <1> QED BY <1>5, <1>6, <1>9, <1>10, <1>11

\* Padding: the frame has been put out, and the FENDs behind it put out nothing.
LEMMA PadStep ==
  ASSUME KissInv, Pad
  PROVE  KissInv' /\ WholeStep
  <1> USE DEF KissInv
  <1>1. /\ ~escaped /\ escaped' = FALSE /\ FEND \in Byte
        /\ merged' = merged /\ missed' = missed /\ pc = "idle" /\ pc' = "idle"
        /\ frame = <<>> /\ frame' = frame /\ at' = at
    BY EmptyFacts DEF Pad, KissType, EncoderInv, FEND, Byte
  <1>2. Received = <<>> /\ Received' = <<>>
    BY <1>1, ReceivedFacts, EmptyFacts DEF KissType, Received
  <1>3. /\ block' = kiss_rx_byte(block, FEND) /\ lilac' = AppendByte(lilac, FEND)
        /\ Deliver(FEND)
    BY DEF Pad, Deliver
  <1>5. block' \in BlockType /\ BlockInv' /\ block'.out = block.out
    BY <1>1, <1>2, <1>3, BlockEnds
  <1>6. /\ lilac' \in DecoderType /\ LilacInv'
        /\ ~merged => lilac'.out = lilac.out
    BY <1>1, <1>2, <1>3, LilacEnds
  <1>7. dslwp' \in DecoderType /\ returned' \in BOOLEAN /\ dslwp'.InEscMode = FALSE
    BY <1>1, <1>3, DslwpAny DEF FEND, FESC, DecoderType
  <1>8. ~missed =>
          /\ dslwp'.DataBuf = <<>> /\ dslwp'.DecodedLength = 0
          /\ ~returned => dslwp'.out = dslwp.out
    <2>1. CASE returned
      BY <1>2, <1>3, <2>1, EmptyFacts DEF Deliver, DslwpInv
    <2>2. CASE ~returned
      BY <1>1, <1>2, <1>3, <2>2, DslwpEnds
    <2> QED BY <2>1, <2>2
  <1>9. DslwpInv'
    <2>1. Len(<<>>) = 0
      BY EmptyFacts
    <2>2. ~missed' => dslwp'.DataBuf = Received' /\ dslwp'.DecodedLength = Len(Received')
      BY <1>1, <1>2, <1>8, <2>1
    <2> QED BY <1>1, <1>7, <2>2 DEF DslwpInv
  <1>10. KissType' /\ EncoderInv'
    <2>1. count' = count /\ size' = size + 1
      BY DEF Pad
    <2>2. size' \in Nat
      BY <2>1 DEF KissType
    <2> QED BY <1>1, <1>5, <1>6, <1>7, <2>1, <2>2 DEF KissType, EncoderInv
  <1>11. WholeStep
    <2>1. Due = <<>>
      BY <1>1 DEF Due, Ends
    <2>2. \A s \in Seq(Seq(Byte)) : s \o <<>> = s
      OBVIOUS
    <2>3. /\ block.out \in Seq(Seq(Byte)) /\ lilac.out \in Seq(Seq(Byte))
          /\ dslwp.out \in Seq(Seq(Byte))
      BY DEF KissType, BlockType, DecoderType
    <2> QED BY <1>5, <1>6, <1>8, <2>1, <2>2, <2>3 DEF WholeStep
  <1> QED BY <1>5, <1>6, <1>9, <1>10, <1>11

LEMMA BreakStep ==
  ASSUME KissInv, Break
  PROVE  KissInv' /\ WholeStep
  <1> USE DEF KissInv
  <1>1. /\ pc = "frame" /\ pc' = "broken"
        /\ UNCHANGED <<count, frame, at, escaped, size, block, lilac, dslwp,
                       returned, merged, missed>>
    BY DEF Break, decoders
  <1>2. Received' = Received
    BY <1>1 DEF Received
  <1>3. KissType' /\ EncoderInv'
    BY <1>1 DEF KissType, EncoderInv
  <1>4. BlockInv' /\ LilacInv' /\ DslwpInv'
    BY <1>1, <1>2 DEF BlockInv, LilacInv, DslwpInv
  <1>5. WholeStep
    BY <1>1, NothingDue DEF Ends
  <1> QED BY <1>3, <1>4, <1>5

LEMMA EndReadStep ==
  ASSUME KissInv, EndRead
  PROVE  KissInv' /\ WholeStep
  <1> USE DEF KissInv
  <1>1. /\ returned' = FALSE
        /\ UNCHANGED <<count, pc, frame, at, escaped, size, block, lilac, dslwp,
                       merged, missed>>
    BY DEF EndRead, encoder
  <1>2. Received' = Received
    BY <1>1 DEF Received
  <1>3. KissType' /\ EncoderInv'
    BY <1>1 DEF KissType, EncoderInv
  <1>4. BlockInv' /\ LilacInv' /\ DslwpInv'
    BY <1>1, <1>2 DEF BlockInv, LilacInv, DslwpInv
  <1>5. WholeStep
    BY <1>1, NothingDue DEF Ends, KissType
  <1> QED BY <1>3, <1>4, <1>5

LEMMA KissStill ==
  ASSUME KissInv, UNCHANGED kissVars
  PROVE  KissInv' /\ WholeStep
  <1> USE DEF KissInv
  <1>1. UNCHANGED <<count, pc, frame, at, escaped, size, block, lilac, dslwp,
                    returned, merged, missed>>
    BY DEF kissVars, encoder, decoders
  <1>2. Received' = Received
    BY <1>1 DEF Received
  <1>3. KissType' /\ EncoderInv'
    BY <1>1 DEF KissType, EncoderInv
  <1>4. BlockInv' /\ LilacInv' /\ DslwpInv'
    BY <1>1, <1>2 DEF BlockInv, LilacInv, DslwpInv
  <1>5. WholeStep
    BY <1>1, NothingDue DEF Ends, KissType
  <1> QED BY <1>3, <1>4, <1>5

LEMMA KissStarts ==
  ASSUME KissInit
  PROVE  KissInv
  <1>1. /\ <<>> \in Seq(Byte) /\ Len(<<>>) = 0 /\ <<>> \in Seq(Seq(Byte))
        /\ EndsIn(<<>>, <<>>)
    BY EmptyFacts DEF EndsIn
  <1>2. block \in BlockType /\ lilac \in DecoderType /\ dslwp \in DecoderType
    BY <1>1 DEF KissInit, BlockInit, DecoderInit, BlockType, DecoderType
  <1>3. Received = <<>>
    BY <1>1, WholePrefix DEF KissInit, Received
  <1>4. KissType /\ EncoderInv
    <2>1. /\ frame = <<>> /\ at = 1 /\ count = 0 /\ size = 0 /\ pc = "idle"
          /\ escaped = FALSE /\ returned = FALSE /\ merged = FALSE /\ missed = FALSE
      BY DEF KissInit
    <2>2. at \in 1 .. Len(frame) + 1 /\ Len(frame) <= BufLen /\ 0 \in 0 .. MaxFrames
      BY <1>1, <2>1, KissAssumption
    <2> QED BY <1>1, <1>2, <2>1, <2>2 DEF KissType, EncoderInv
  <1>5. BlockInv
    BY <1>3 DEF KissInit, BlockInit, BlockInv
  <1>6. /\ lilac.InEscMode = FALSE /\ lilac.DataBuf = <<>> /\ lilac.DecodedLength = 0
        /\ dslwp.InEscMode = FALSE /\ dslwp.DataBuf = <<>> /\ dslwp.DecodedLength = 0
        /\ escaped = FALSE
    BY DEF KissInit, DecoderInit
  <1>7. LilacInv /\ DslwpInv
    <2>1. /\ lilac.DecodedLength >= Len(lilac.DataBuf)
          /\ lilac.DataBuf = Received /\ lilac.DecodedLength = Len(Received)
          /\ dslwp.DataBuf = Received /\ dslwp.DecodedLength = Len(Received)
          /\ EndsIn(lilac.DataBuf, Received)
      BY <1>1, <1>3, <1>6
    <2> QED BY <1>6, <2>1 DEF LilacInv, DslwpInv
  <1> QED BY <1>4, <1>5, <1>7 DEF KissInv

LEMMA KissSteps ==
  ASSUME KissInv, [Next]_vars
  PROVE  KissInv' /\ WholeStep
  <1>1. KissNext \/ UNCHANGED kissVars
    BY DEF Next, vars, handle_D_L2RA, Server
  <1>2. CASE KissNext
    BY <1>2, OpenStep, PlainStep, EscapeStep, EscapedStep, CloseStep, PadStep,
       BreakStep, EndReadStep DEF KissNext
  <1>3. CASE UNCHANGED kissVars
    BY <1>3, KissStill
  <1> QED BY <1>1, <1>2, <1>3

LEMMA KissAlways == Spec => []KissInv
  <1>1. Init => KissInv
    BY KissStarts DEF Init
  <1>2. KissInv /\ [Next]_vars => KissInv'
    BY KissSteps
  <1> QED BY <1>1, <1>2, PTL DEF Spec

\* However the stream is cut and wherever connections break, what has arrived of
\* a frame comes out of the decoders when the FEND behind it arrives, and nothing
\* else: kiss_rx_byte and the two AppendStream together with kiss_tx_packet, for
\* all frames of bytes that fit the buffer.
THEOREM DecodersWhole == Spec => FramesWhole
  <1>1. KissInv /\ [Next]_vars => WholeStep
    BY KissSteps
  <1>2. KissInv /\ [Next]_vars => [WholeStep]_vars
    BY <1>1
  <1> QED BY <1>2, KissAlways, PTL DEF Spec, FramesWhole

\* The decoder of the blocks never writes past its buffer, whatever breaks.
THEOREM BlockFits == Spec => []BufferFits
  <1>1. KissInv => BufferFits
    <2> SUFFICES ASSUME KissInv PROVE BufferFits
      OBVIOUS
    <2>1. Len(block.buffer) = at - 1
      BY ReceivedFacts DEF KissInv, BlockInv
    <2> QED BY <2>1, KissAssumption DEF KissInv, KissType, BufferFits
  <1> QED BY <1>1, KissAlways, PTL

-----------------------------------------------------------------------------
(* The inductive invariant of the second half: where the server is in what *)
(* the proxy packed.                                                       *)

\* The bytes before those that StreamSpliter2 has.
Base == read - Len(DataBuffer)

SplitterType ==
  /\ packets \in Seq(Seq(Byte)) /\ due \in Seq(Seq(Nat)) /\ stream \in Seq(Nat)
  /\ read \in 0 .. Len(stream)
  /\ DataBuffer \in Seq(Nat) /\ Len(DataBuffer) <= read
  /\ \A k \in 1 .. Len(DataBuffer) : DataBuffer[k] = stream[Base + k]
  /\ haderFound \in Nat /\ PacketSize \in Nat /\ StateNow \in 0 .. 2
  /\ busy \in BOOLEAN /\ out \in Seq(Seq(Nat))

\* NewStream leaves nothing undone.
Asleep ==
  ~busy => /\ StateNow = 0 => Len(DataBuffer) <= 4
           /\ StateNow = 1 => Rest <= 5
           /\ StateNow = 2 => Rest - 5 < PacketSize

PackedLen(f) == 10 + Overhead + Len(f)

\* Packet k follows place from[k] of the stream, and rank[k] elements of due.
Layout(from, rank) ==
  /\ from[1] = 0 /\ from[Len(packets) + 1] = Len(stream)
  /\ rank[1] = 0 /\ rank[Len(packets) + 1] = Len(due)
  /\ \A k \in 1 .. Len(packets) :
       /\ from[k + 1] = from[k] + PackedLen(packets[k])
       /\ \A j \in 1 .. PackedLen(packets[k]) : stream[from[k] + j] = Pack(packets[k])[j]
       /\ rank[k + 1] = rank[k] + (IF TooLong(packets[k]) THEN 0 ELSE 1)
       /\ ~TooLong(packets[k]) => due[rank[k] + 1] = Body(packets[k])

\* The server has put out all that is due of the packets before the one at cur.
\* It is in front of that one, or looks for it in the one before, which is too
\* long.
Cursor(from, rank, cur) ==
  /\ Len(out) = rank[cur]
  /\ Base <= from[cur]
  /\ Base < from[cur] => cur > 1 /\ TooLong(packets[cur - 1]) /\ from[cur - 1] < Base
  /\ StateNow # 0 => /\ cur <= Len(packets)
                     /\ haderFound = from[cur] + 5 - Base
                     /\ haderFound <= Len(DataBuffer)
  /\ StateNow = 2 => ~TooLong(packets[cur]) /\ PacketSize = Len(packets[cur]) + Overhead

AllHarmless == \A k \in DOMAIN packets : Harmless(packets[k])

Place == 1 .. Len(packets) + 1

Placed ==
  \E from \in [Place -> 0 .. Len(stream)], rank \in [Place -> 0 .. Len(due)], cur \in Place :
    Layout(from, rank) /\ Cursor(from, rank, cur)

OutDue == Len(out) <= Len(due) /\ \A k \in 1 .. Len(out) : out[k] = due[k]

SplitterInv == SplitterType /\ Asleep /\ (AllHarmless => OutDue /\ Placed)

-----------------------------------------------------------------------------
(* Packets.                                                                *)

LEMMA BytesAreNats ==
  ASSUME NEW s \in Seq(Byte)
  PROVE  s \in Seq(Nat) /\ Len(s) \in Nat
  <1>1. Byte \subseteq Nat
    BY DEF Byte
  <1> QED BY <1>1, SeqMonotonic, LenProperties

LEMMA ConcatFacts ==
  ASSUME NEW S, NEW s \in Seq(S), NEW t \in Seq(S)
  PROVE  /\ s \o t \in Seq(S) /\ Len(s \o t) = Len(s) + Len(t)
         /\ Len(s) \in Nat /\ Len(t) \in Nat
         /\ \A j \in 1 .. Len(s) : (s \o t)[j] = s[j]
         /\ \A j \in 1 .. Len(t) : (s \o t)[Len(s) + j] = t[j]
  <1>1. Len(s) \in Nat /\ Len(t) \in Nat
    BY LenProperties
  <1>2. /\ s \o t \in Seq(S) /\ Len(s \o t) = Len(s) + Len(t)
        /\ \A i \in 1 .. Len(s) + Len(t) :
             (s \o t)[i] = IF i <= Len(s) THEN s[i] ELSE t[i - Len(s)]
    BY ConcatProperties
  <1>3. ASSUME NEW j \in 1 .. Len(s) PROVE (s \o t)[j] = s[j]
    <2>1. j \in 1 .. Len(s) + Len(t) /\ j <= Len(s)
      BY <1>1
    <2> QED BY <1>2, <2>1
  <1>4. ASSUME NEW j \in 1 .. Len(t) PROVE (s \o t)[Len(s) + j] = t[j]
    <2>1. /\ Len(s) + j \in 1 .. Len(s) + Len(t) /\ ~(Len(s) + j <= Len(s))
          /\ Len(s) + j - Len(s) = j
      BY <1>1
    <2> QED BY <1>2, <2>1
  <1> QED BY <1>1, <1>2, <1>3, <1>4

\* A name for the concatenation, of which the provers then know these facts only.
Cat(s, t) == s \o t

LEMMA CatFacts ==
  ASSUME NEW s \in Seq(Nat), NEW t \in Seq(Nat)
  PROVE  /\ Cat(s, t) \in Seq(Nat) /\ Len(Cat(s, t)) = Len(s) + Len(t)
         /\ Len(s) \in Nat /\ Len(t) \in Nat
         /\ \A j \in 1 .. Len(s) : Cat(s, t)[j] = s[j]
         /\ \A j \in 1 .. Len(t) : Cat(s, t)[Len(s) + j] = t[j]
  <1>1. /\ s \o t \in Seq(Nat) /\ Len(s \o t) = Len(s) + Len(t)
        /\ Len(s) \in Nat /\ Len(t) \in Nat
        /\ \A j \in 1 .. Len(s) : (s \o t)[j] = s[j]
        /\ \A j \in 1 .. Len(t) : (s \o t)[Len(s) + j] = t[j]
    BY ConcatFacts
  <1> QED BY <1>1 DEF Cat

LEMMA SubSeqFacts ==
  ASSUME NEW S, NEW s \in Seq(S), NEW a \in 0 .. Len(s), NEW b \in a .. Len(s)
  PROVE  /\ SubSeq(s, a + 1, b) \in Seq(S) /\ Len(SubSeq(s, a + 1, b)) = b - a
         /\ \A j \in 1 .. b - a : SubSeq(s, a + 1, b)[j] = s[a + j]
  <1>1. Len(s) \in Nat /\ a \in Nat /\ b \in Nat /\ a <= b
    BY LenProperties
  <1>2. \A i \in a + 1 .. b : s[i] \in S
    BY <1>1, ElementOfSeq
  <1>3. a + 1 \in Int /\ b \in Int /\ b - (a + 1) + 1 = b - a
    BY <1>1
  <1>4. /\ SubSeq(s, a + 1, b) \in Seq(S)
        /\ Len(SubSeq(s, a + 1, b)) = IF a + 1 <= b THEN b - (a + 1) + 1 ELSE 0
        /\ \A i \in 1 .. b - (a + 1) + 1 : SubSeq(s, a + 1, b)[i] = s[(a + 1) + i - 1]
    BY <1>2, <1>3, SubSeqProperties
  <1>5. \A j \in 1 .. b - a : (a + 1) + j - 1 = a + j
    BY <1>1
  <1> QED BY <1>1, <1>3, <1>4, <1>5

LEMMA BodyFacts ==
  ASSUME NEW f \in Seq(Byte)
  PROVE  /\ Body(f) \in Seq(Nat) /\ Len(Body(f)) = Overhead + Len(f)
         /\ \A j \in 1 .. Overhead : Body(f)[j] = 0
         /\ \A j \in 1 .. Len(f) : Body(f)[Overhead + j] = f[j]
  <1>1. PICK z : z = [k \in 1 .. Overhead |-> 0]
    OBVIOUS
  <1>2. z \in Seq(Nat) /\ Len(z) = Overhead /\ \A j \in 1 .. Overhead : z[j] = 0
    BY <1>1, SplitterAssumption
  <1>3. f \in Seq(Nat)
    BY BytesAreNats
  <1>4. /\ Cat(z, f) \in Seq(Nat) /\ Len(Cat(z, f)) = Len(z) + Len(f)
        /\ Len(z) \in Nat /\ Len(f) \in Nat
        /\ \A j \in 1 .. Len(z) : Cat(z, f)[j] = z[j]
        /\ \A j \in 1 .. Len(f) : Cat(z, f)[Len(z) + j] = f[j]
    BY <1>2, <1>3, CatFacts
  <1>5. Body(f) = Cat(z, f)
    BY <1>1 DEF Body, Cat
  <1> QED BY <1>2, <1>4, <1>5

LEMMA PackFacts ==
  ASSUME NEW f \in Seq(Byte)
  PROVE  /\ Pack(f) \in Seq(Nat) /\ Len(Pack(f)) = PackedLen(f)
         /\ \A j \in 1 .. 5 : Pack(f)[j] = Header[j]
         /\ \A j \in 1 .. 4 : Pack(f)[5 + j] = PackLength(Len(f) + Overhead)[j]
         /\ Pack(f)[10] = 1
         /\ \A j \in 1 .. Overhead : Pack(f)[10 + j] = 0
         /\ \A j \in 1 .. Len(f) : Pack(f)[10 + Overhead + j] = f[j]
         /\ \A j \in 1 .. Overhead + Len(f) : Pack(f)[10 + j] = Body(f)[j]
  <1>1. PICK b : b = Body(f)
    OBVIOUS
  <1>2. PICK l : l = PackLength(Len(f) + Overhead)
    OBVIOUS
  <1>3. l \in Seq(Nat) /\ Len(l) = 4
    BY <1>2, SplitterAssumption DEF PackLength
  <1>4. Header \in Seq(Nat) /\ Len(Header) = 5
    BY DEF Header
  <1>5. PICK h : h = Cat(Header, l)
    OBVIOUS
  <1>6. /\ h \in Seq(Nat) /\ Len(h) = 5 + 4
        /\ \A j \in 1 .. 5 : h[j] = Header[j]
        /\ \A j \in 1 .. 4 : h[5 + j] = l[j]
    <2>1. /\ Cat(Header, l) \in Seq(Nat) /\ Len(Cat(Header, l)) = Len(Header) + Len(l)
          /\ Len(Header) \in Nat /\ Len(l) \in Nat
          /\ \A j \in 1 .. Len(Header) : Cat(Header, l)[j] = Header[j]
          /\ \A j \in 1 .. Len(l) : Cat(Header, l)[Len(Header) + j] = l[j]
      BY <1>3, <1>4, CatFacts
    <2> QED BY <1>3, <1>4, <1>5, <2>1
  <1>7. PICK g : g = Cat(h, <<1>>)
    OBVIOUS
  <1>8. /\ g \in Seq(Nat) /\ Len(g) = 10
        /\ \A j \in 1 .. 9 : g[j] = h[j]
        /\ g[10] = 1
    <2>1. PICK u : u = <<1>>
      OBVIOUS
    <2>4. u \in Seq(Nat) /\ Len(u) = 1 /\ u[1] = 1
      BY <2>1
    <2>2. /\ Cat(h, u) \in Seq(Nat) /\ Len(Cat(h, u)) = Len(h) + Len(u)
          /\ Len(h) \in Nat /\ Len(u) \in Nat
          /\ \A j \in 1 .. Len(h) : Cat(h, u)[j] = h[j]
          /\ \A j \in 1 .. Len(u) : Cat(h, u)[Len(h) + j] = u[j]
      BY <1>6, <2>4, CatFacts
    <2>3. Len(h) = 9 /\ 1 \in 1 .. Len(u)
      BY <1>6, <2>4
    <2>5. Cat(h, u)[Len(h) + 1] = u[1]
      BY <2>2, <2>3
    <2> QED BY <1>7, <2>1, <2>2, <2>3, <2>4, <2>5
  <1>9. /\ b \in Seq(Nat) /\ Len(b) = Overhead + Len(f)
        /\ \A j \in 1 .. Overhead : b[j] = 0
        /\ \A j \in 1 .. Len(f) : b[Overhead + j] = f[j]
        /\ Len(f) \in Nat /\ Overhead \in Nat
    BY <1>1, BodyFacts, BytesAreNats, SplitterAssumption
  <1>10. Pack(f) = Cat(g, b)
    BY <1>1, <1>2, <1>5, <1>7 DEF Pack, Cat
  <1>11. /\ Cat(g, b) \in Seq(Nat) /\ Len(Cat(g, b)) = 10 + Len(b)
         /\ \A j \in 1 .. 10 : Cat(g, b)[j] = g[j]
         /\ \A j \in 1 .. Len(b) : Cat(g, b)[10 + j] = b[j]
    <2>1. /\ Cat(g, b) \in Seq(Nat) /\ Len(Cat(g, b)) = Len(g) + Len(b)
          /\ Len(g) \in Nat /\ Len(b) \in Nat
          /\ \A j \in 1 .. Len(g) : Cat(g, b)[j] = g[j]
          /\ \A j \in 1 .. Len(b) : Cat(g, b)[Len(g) + j] = b[j]
      BY <1>8, <1>9, CatFacts
    <2> QED BY <1>8, <2>1
  <1>12. /\ Pack(f) \in Seq(Nat) /\ Len(Pack(f)) = PackedLen(f)
         /\ Pack(f)[10] = 1
         /\ \A j \in 1 .. Overhead + Len(f) : Pack(f)[10 + j] = b[j]
    <2>1. Len(b) \in Nat /\ Len(Pack(f)) = PackedLen(f) /\ Pack(f) \in Seq(Nat)
      BY <1>9, <1>10, <1>11 DEF PackedLen
    <2>2. Pack(f)[10] = 1
      BY <1>8, <1>10, <1>11
    <2> QED BY <1>9, <1>10, <1>11, <2>1, <2>2
  <1>13. \A j \in 1 .. 5 : Pack(f)[j] = Header[j]
    <2> SUFFICES ASSUME NEW j \in 1 .. 5 PROVE Pack(f)[j] = Header[j]
      OBVIOUS
    <2>1. j \in 1 .. 10 /\ j \in 1 .. 9
      OBVIOUS
    <2> QED BY <1>6, <1>8, <1>10, <1>11, <2>1
  <1>14. \A j \in 1 .. 4 : Pack(f)[5 + j] = l[j]
    <2> SUFFICES ASSUME NEW j \in 1 .. 4 PROVE Pack(f)[5 + j] = l[j]
      OBVIOUS
    <2>1. 5 + j \in 1 .. 10 /\ 5 + j \in 1 .. 9
      OBVIOUS
    <2> QED BY <2>1, <1>6, <1>8, <1>10, <1>11
  <1>15. \A j \in 1 .. Overhead : Pack(f)[10 + j] = 0
    <2> SUFFICES ASSUME NEW j \in 1 .. Overhead PROVE Pack(f)[10 + j] = 0
      OBVIOUS
    <2>1. j \in 1 .. Overhead + Len(f)
      BY <1>9
    <2> QED BY <1>9, <1>12, <2>1
  <1>16. \A j \in 1 .. Len(f) : Pack(f)[10 + Overhead + j] = f[j]
    <2> SUFFICES ASSUME NEW j \in 1 .. Len(f) PROVE Pack(f)[10 + Overhead + j] = f[j]
      OBVIOUS
    <2>1. Overhead + j \in 1 .. Overhead + Len(f) /\ 10 + (Overhead + j) = 10 + Overhead + j
      BY <1>9
    <2>2. Pack(f)[10 + (Overhead + j)] = b[Overhead + j]
      BY <1>12, <2>1
    <2> QED BY <1>9, <2>1, <2>2
  <1> QED BY <1>1, <1>2, <1>12, <1>13, <1>14, <1>15, <1>16


LEMMA DivFacts ==
  ASSUME NEW n \in Nat
  PROVE  n \div 256 \in Nat /\ n % 256 \in 0 .. 255 /\ n = 256 * (n \div 256) + (n % 256)
  BY SMT

\* The server reads the length that the proxy wrote.
LEMMA LengthBack ==
  ASSUME NEW n \in Nat, n <= 2147483647
  PROVE  UnpackLength(PackLength(n)) = n
  <1>1. PICK a \in Nat, r \in 0 .. 255 : a = n \div 256 /\ r = n % 256
    BY SMT, DivFacts
  <1>2. PICK b \in Nat, s \in 0 .. 255 : b = a \div 256 /\ s = a % 256
    BY SMT, DivFacts
  <1>3. PICK c \in Nat, t \in 0 .. 255 : c = b \div 256 /\ t = b % 256
    BY SMT, DivFacts
  <1>4. n = 256 * a + r /\ a = 256 * b + s /\ b = 256 * c + t
    BY SMT, <1>1, <1>2, <1>3, DivFacts
  <1>5. n \div 65536 = b
    BY SMT, <1>4
  <1>6. n \div 16777216 = c
    BY SMT, <1>4
  <1>7. c <= 127 /\ n = r + 256 * s + 65536 * t + 16777216 * c
    BY SMT, <1>4
  <1>8. PackLength(n) = <<r, s, t, c>>
    BY SMT, <1>1, <1>2, <1>3, <1>5, <1>6 DEF PackLength
  <1> QED BY SMT, <1>7, <1>8 DEF UnpackLength

\* A packet in the stream.
LEMMA PacketAt ==
  ASSUME SplitterType,
         NEW from \in [Place -> 0 .. Len(stream)], NEW rank \in [Place -> 0 .. Len(due)],
         Layout(from, rank), NEW k \in 1 .. Len(packets)
  PROVE  /\ packets[k] \in Seq(Byte) /\ Len(packets[k]) \in Nat
         /\ k \in Place /\ k + 1 \in Place /\ from[k] \in Nat
         /\ from[k + 1] = from[k] + 10 + Overhead + Len(packets[k])
         /\ from[k + 1] <= Len(stream) /\ Len(stream) \in Nat
         /\ \A j \in 1 .. 5 : stream[from[k] + j] = Header[j]
         /\ \A j \in 1 .. 4 :
              stream[from[k] + 5 + j] = PackLength(Len(packets[k]) + Overhead)[j]
         /\ stream[from[k] + 10] = 1
         /\ \A j \in 1 .. Overhead : stream[from[k] + 10 + j] = 0
         /\ \A j \in 1 .. Len(packets[k]) :
              stream[from[k] + 10 + Overhead + j] = packets[k][j]
         /\ \A j \in 1 .. Overhead + Len(packets[k]) :
              stream[from[k] + 10 + j] = Body(packets[k])[j]
  <1>1. PICK f : f = packets[k]
    OBVIOUS
  <1>2. f \in Seq(Byte) /\ Len(f) \in Nat /\ Overhead \in Nat
    BY <1>1, BytesAreNats, SplitterAssumption DEF SplitterType
  <1>3. k \in Place /\ k + 1 \in Place /\ Len(packets) \in Nat /\ Len(stream) \in Nat
    BY DEF SplitterType, Place
  <1>4. PICK p : p = from[k]
    OBVIOUS
  <1>5. p \in Nat /\ from[k + 1] <= Len(stream)
    BY <1>3, <1>4
  <1>6. from[k + 1] = p + 10 + Overhead + Len(f)
    <2>1. from[k + 1] = p + PackedLen(f)
      BY <1>1, <1>4 DEF Layout
    <2>2. p + (10 + Overhead + Len(f)) = p + 10 + Overhead + Len(f)
      BY <1>2, <1>5
    <2> QED BY <2>1, <2>2 DEF PackedLen
  <1>14. /\ \A j \in 1 .. 5 : Pack(f)[j] = Header[j]
         /\ \A j \in 1 .. 4 : Pack(f)[5 + j] = PackLength(Len(f) + Overhead)[j]
         /\ Pack(f)[10] = 1
         /\ \A j \in 1 .. Overhead : Pack(f)[10 + j] = 0
         /\ \A j \in 1 .. Len(f) : Pack(f)[10 + Overhead + j] = f[j]
         /\ \A j \in 1 .. Overhead + Len(f) : Pack(f)[10 + j] = Body(f)[j]
    BY <1>2, PackFacts
  <1>7. \A j \in 1 .. 10 + Overhead + Len(f) : stream[p + j] = Pack(f)[j]
    BY <1>1, <1>4 DEF Layout, PackedLen
  <1>8. \A j \in 1 .. 5 : stream[p + j] = Header[j]
    <2> SUFFICES ASSUME NEW j \in 1 .. 5 PROVE stream[p + j] = Header[j]
      OBVIOUS
    <2>1. j \in 1 .. 10 + Overhead + Len(f)
      BY <1>2
    <2> QED BY <1>7, <1>14, <2>1
  <1>9. \A j \in 1 .. 4 : stream[p + 5 + j] = PackLength(Len(f) + Overhead)[j]
    <2> SUFFICES ASSUME NEW j \in 1 .. 4
                 PROVE  stream[p + 5 + j] = PackLength(Len(f) + Overhead)[j]
      OBVIOUS
    <2>1. p + 5 + j = p + (5 + j) /\ 5 + j \in 1 .. 10 + Overhead + Len(f)
      BY <1>2, <1>5
    <2> QED BY <1>7, <1>14, <2>1
  <1>10. stream[p + 10] = 1
    <2>1. 10 \in 1 .. 10 + Overhead + Len(f)
      BY <1>2
    <2> QED BY <1>7, <1>14, <2>1
  <1>11. \A j \in 1 .. Overhead : stream[p + 10 + j] = 0
    <2> SUFFICES ASSUME NEW j \in 1 .. Overhead PROVE stream[p + 10 + j] = 0
      OBVIOUS
    <2>1. p + 10 + j = p + (10 + j) /\ 10 + j \in 1 .. 10 + Overhead + Len(f)
      BY <1>2, <1>5
    <2> QED BY <1>7, <1>14, <2>1
  <1>12. \A j \in 1 .. Len(f) : stream[p + 10 + Overhead + j] = f[j]
    <2> SUFFICES ASSUME NEW j \in 1 .. Len(f) PROVE stream[p + 10 + Overhead + j] = f[j]
      OBVIOUS
    <2>1. /\ p + 10 + Overhead + j = p + (10 + Overhead + j)
          /\ 10 + Overhead + j \in 1 .. 10 + Overhead + Len(f)
      BY <1>2, <1>5
    <2> QED BY <1>7, <1>14, <2>1
  <1>13. \A j \in 1 .. Overhead + Len(f) : stream[p + 10 + j] = Body(f)[j]
    <2> SUFFICES ASSUME NEW j \in 1 .. Overhead + Len(f)
                 PROVE  stream[p + 10 + j] = Body(f)[j]
      OBVIOUS
    <2>1. p + 10 + j = p + (10 + j) /\ 10 + j \in 1 .. 10 + Overhead + Len(f)
      BY <1>2, <1>5
    <2> QED BY <1>7, <1>14, <2>1
  <1> QED
    BY <1>1, <1>2, <1>3, <1>4, <1>5, <1>6, <1>8, <1>9, <1>10, <1>11, <1>12, <1>13

\* A header in a sequence, byte by byte.
LEMMA HeaderIs ==
  ASSUME NEW s \in Seq(Nat), NEW k \in 5 .. Len(s)
  PROVE  HeaderEnds(s, k) <=> \A j \in 1 .. 5 : s[k - 5 + j] = Header[j]
  <1>1. PICK t : t = SubSeq(s, k - 4, k)
    OBVIOUS
  <1>2. k - 5 \in 0 .. Len(s) /\ k \in k - 5 .. Len(s) /\ (k - 5) + 1 = k - 4 /\ k - (k - 5) = 5
    BY LenProperties
  <1>3. /\ SubSeq(s, (k - 5) + 1, k) \in Seq(Nat)
        /\ Len(SubSeq(s, (k - 5) + 1, k)) = k - (k - 5)
        /\ \A j \in 1 .. k - (k - 5) : SubSeq(s, (k - 5) + 1, k)[j] = s[(k - 5) + j]
    BY <1>2, SubSeqFacts
  <1>4. t \in Seq(Nat) /\ Len(t) = 5 /\ \A j \in 1 .. 5 : t[j] = s[(k - 5) + j]
    BY <1>1, <1>2, <1>3
  <1>5. Header \in Seq(Nat) /\ Len(Header) = 5
    BY DEF Header
  <1>6. t = Header <=> \A j \in 1 .. 5 : t[j] = Header[j]
    <2>1. ASSUME \A j \in 1 .. 5 : t[j] = Header[j] PROVE t = Header
      <3>1. Len(t) = Len(Header) /\ \A j \in 1 .. Len(t) : t[j] = Header[j]
        BY <1>4, <1>5, <2>1
      <3> QED BY <1>4, <1>5, <3>1, SeqEqual
    <2> QED BY <2>1
  <1>7. HeaderEnds(s, k) <=> t = Header
    BY <1>1 DEF HeaderEnds
  <1> QED BY <1>4, <1>6, <1>7

\* Behind its own, no header begins in a packet that is harmless and too long:
\* not in its length, its type and the station's data, nor in the frame, nor
\* between the frame and the next packet.
LEMMA NoneInside ==
  ASSUME SplitterType,
         NEW from \in [Place -> 0 .. Len(stream)], NEW rank \in [Place -> 0 .. Len(due)],
         Layout(from, rank), NEW k \in 1 .. Len(packets),
         Harmless(packets[k]), TooLong(packets[k]),
         NEW o \in 1 .. 9 + Overhead + Len(packets[k]),
         from[k] + o + 5 <= Len(stream),
         \A j \in 1 .. 5 : stream[from[k] + o + j] = Header[j]
  PROVE  FALSE
  <1>1. PICK f : f = packets[k]
    OBVIOUS
  <1>2. PICK p : p = from[k]
    OBVIOUS
  <1>3. /\ f \in Seq(Byte) /\ Len(f) \in Nat /\ Overhead \in Nat /\ p \in Nat
        /\ from[k + 1] = p + 10 + Overhead + Len(f) /\ k + 1 \in Place
    BY <1>1, <1>2, PacketAt, SplitterAssumption
  <1>13. Len(f) \in Nat /\ Overhead \in Nat /\ p \in Nat /\ o \in Nat
    BY <1>1, <1>3
  <1>4. /\ \A j \in 1 .. 5 : stream[p + j] = Header[j]
        /\ stream[p + 10] = 1
        /\ \A j \in 1 .. Overhead : stream[p + 10 + j] = 0
        /\ \A j \in 1 .. Len(f) : stream[p + 10 + Overhead + j] = f[j]
    BY <1>1, <1>2, PacketAt
  <1>5. \A j \in 1 .. 5 : stream[p + o + j] = Header[j]
    BY <1>2
  <1>6. /\ Header[1] = 80
        /\ \A j \in 2 .. 5 : Header[j] # 80
        /\ \A j \in 1 .. 5 : Header[j] # 1 /\ Header[j] # 0
    BY DEF Header
  <1>7. CASE o \in 1 .. 4
    <2>1. stream[p + o + 1] = 80
      BY <1>5, <1>6
    <2>2. o + 1 \in 2 .. 5 /\ p + o + 1 = p + (o + 1)
      BY <1>3, <1>7
    <2> QED BY <1>4, <1>6, <2>1, <2>2
  <1>8. CASE o \in 5 .. 9
    <2>1. PICK j \in 1 .. 5 : p + o + j = p + 10
      <3>1. 10 - o \in 1 .. 5 /\ p + o + (10 - o) = p + 10
        BY <1>3, <1>8
      <3> QED BY <3>1
    <2>2. stream[p + o + j] = 1
      BY <1>4, <2>1
    <2> QED BY <1>5, <1>6, <2>2
  <1>9. CASE o \in 10 .. 9 + Overhead
    <2>1. o - 9 \in 1 .. Overhead /\ p + 10 + (o - 9) = p + o + 1
      BY <1>3, <1>9
    <2> QED BY <1>4, <1>5, <1>6, <2>1
  <1>10. CASE o \in 10 + Overhead .. 5 + Overhead + Len(f)
    <2>1. PICK i : i = o - 10 - Overhead
      OBVIOUS
    <2>2. i + 5 \in 5 .. Len(f) /\ i \in Nat
      BY <1>3, <1>10, <2>1
    <2>3. ASSUME NEW j \in 1 .. 5 PROVE f[(i + 5) - 5 + j] = Header[j]
      <3>1. (i + 5) - 5 + j \in 1 .. Len(f)
        BY <1>3, <2>2
      <3>2. p + 10 + Overhead + ((i + 5) - 5 + j) = p + o + j
        BY <1>3, <2>1
      <3> QED BY <1>4, <1>5, <3>1, <3>2
    <2>4. HeaderEnds(f, i + 5)
      <3>1. f \in Seq(Nat)
        BY <1>3, BytesAreNats
      <3>2. HeaderEnds(f, i + 5) <=> \A j \in 1 .. 5 : f[(i + 5) - 5 + j] = Header[j]
        BY <2>2, <3>1, HeaderIs
      <3> QED BY <2>3, <3>2
    <2> QED BY <1>1, <1>3, <2>2, <2>4 DEF Harmless
  <1>11. CASE o \in 6 + Overhead + Len(f) .. 9 + Overhead + Len(f)
    <2>1. PICK q : q = from[k + 1]
      OBVIOUS
    <2>0. Len(stream) \in Nat /\ Len(packets) \in Nat /\ p + o + 5 <= Len(stream)
      BY <1>2, LenProperties DEF SplitterType
    <2>2. q = p + 10 + Overhead + Len(f) /\ q < Len(stream) /\ q \in Nat
      BY <1>3, <1>11, <2>0, <2>1
    <2>3. k + 1 \in 1 .. Len(packets)
      <3>1. k + 1 # Len(packets) + 1
        <4> SUFFICES ASSUME k + 1 = Len(packets) + 1 PROVE FALSE
          OBVIOUS
        <4>1. from[Len(packets) + 1] = Len(stream)
          BY DEF Layout
        <4>2. q = Len(stream)
          BY <2>1, <4>1
        <4> QED BY <2>0, <2>2, <4>2
      <3> QED BY <2>0, <3>1
    <2>4. stream[q + 1] = 80
      <3>1. \A j \in 1 .. 5 : stream[from[k + 1] + j] = Header[j]
        BY <2>3, PacketAt
      <3>2. stream[q + 1] = Header[1]
        BY <2>1, <3>1
      <3> QED BY <1>6, <3>2
    <2>5. PICK j \in 2 .. 5 : p + o + j = q + 1
      <3>1. PICK l \in Nat : l = Len(f)
        BY <1>13
      <3>2. o \in 6 + Overhead + l .. 9 + Overhead + l /\ q = p + 10 + Overhead + l
        BY <1>11, <2>2, <3>1
      <3>3. q + 1 - (p + o) \in 2 .. 5 /\ p + o + (q + 1 - (p + o)) = q + 1
        BY <1>13, <3>2
      <3> QED BY <3>3
    <2>6. stream[p + o + j] = 80 /\ j \in 1 .. 5
      <3>1. j \in 1 .. 5
        BY <2>5
      <3> QED BY <2>4, <2>5, <3>1
    <2> QED BY <1>5, <1>6, <2>5, <2>6
  <1>12. o \in 1 .. 9 + Overhead + Len(f)
    BY <1>1
  <1> QED BY <1>3, <1>7, <1>8, <1>9, <1>10, <1>11, <1>12

-----------------------------------------------------------------------------
(* The server's steps.                                                     *)

LEMMA BufferFacts ==
  ASSUME SplitterType
  PROVE  /\ DataBuffer \in Seq(Nat) /\ Len(DataBuffer) \in Nat
         /\ DOMAIN DataBuffer = 1 .. Len(DataBuffer)
         /\ Base \in Nat /\ read \in Nat /\ read = Base + Len(DataBuffer)
         /\ read <= Len(stream) /\ Len(stream) \in Nat /\ Len(packets) \in Nat
         /\ Len(due) \in Nat /\ Len(out) \in Nat
  <1>1. DataBuffer \in Seq(Nat) /\ Len(DataBuffer) <= read /\ read \in 0 .. Len(stream)
    BY DEF SplitterType
  <1>2. /\ Len(DataBuffer) \in Nat /\ DOMAIN DataBuffer = 1 .. Len(DataBuffer)
        /\ Len(stream) \in Nat /\ Len(packets) \in Nat /\ Len(due) \in Nat /\ Len(out) \in Nat
    BY LenProperties DEF SplitterType
  <1> QED BY <1>1, <1>2 DEF Base

\* The first bytes of the buffer go.
LEMMA CutFacts ==
  ASSUME SplitterType, NEW cut \in 0 .. Len(DataBuffer),
         DataBuffer' = SubSeq(DataBuffer, cut + 1, Len(DataBuffer)),
         read' = read, stream' = stream
  PROVE  /\ DataBuffer' \in Seq(Nat) /\ Len(DataBuffer') = Len(DataBuffer) - cut
         /\ Len(DataBuffer') <= read' /\ Base' = Base + cut
         /\ \A k \in 1 .. Len(DataBuffer') : DataBuffer'[k] = stream'[Base' + k]
  <1>1. PICK b : b = SubSeq(DataBuffer, cut + 1, Len(DataBuffer))
    OBVIOUS
  <1>2. DataBuffer \in Seq(Nat) /\ Len(DataBuffer) \in Nat /\ read \in Nat
        /\ Len(DataBuffer) <= read
    BY DEF SplitterType
  <1>3. /\ b \in Seq(Nat) /\ Len(b) = Len(DataBuffer) - cut
        /\ \A k \in 1 .. Len(b) : b[k] = DataBuffer[cut + k]
    <2>1. cut \in 0 .. Len(DataBuffer) /\ Len(DataBuffer) \in cut .. Len(DataBuffer)
      BY <1>2
    <2>2. /\ SubSeq(DataBuffer, cut + 1, Len(DataBuffer)) \in Seq(Nat)
          /\ Len(SubSeq(DataBuffer, cut + 1, Len(DataBuffer))) = Len(DataBuffer) - cut
          /\ \A j \in 1 .. Len(DataBuffer) - cut :
               SubSeq(DataBuffer, cut + 1, Len(DataBuffer))[j] = DataBuffer[cut + j]
      BY <1>2, <2>1, SubSeqFacts
    <2> QED BY <1>1, <2>2
  <1>4. Base' = Base + cut
    <2>1. Base' = read - Len(b)
      BY <1>1 DEF Base
    <2>2. read - (Len(DataBuffer) - cut) = read - Len(DataBuffer) + cut
      BY <1>2
    <2> QED BY <1>3, <2>1, <2>2 DEF Base
  <1>5. ASSUME NEW k \in 1 .. Len(b) PROVE b[k] = stream[Base + cut + k]
    <2>1. cut + k \in 1 .. Len(DataBuffer) /\ Base + (cut + k) = Base + cut + k
      BY <1>2, <1>3 DEF Base
    <2> QED BY <1>3, <2>1 DEF SplitterType
  <1> QED BY <1>1, <1>2, <1>3, <1>4, <1>5

\* What does not touch what the proxy packed leaves the layout.
LEMMA LayoutStays ==
  ASSUME NEW from, NEW rank, Layout(from, rank),
         packets' = packets, due' = due, stream' = stream
  PROVE  Layout(from, rank)'
  BY DEF Layout

LEMMA PlacedAgain ==
  ASSUME UNCHANGED <<packets, due, stream>>,
         NEW from \in [Place -> 0 .. Len(stream)], NEW rank \in [Place -> 0 .. Len(due)],
         NEW cur \in Place, Layout(from, rank), Cursor(from, rank, cur)'
  PROVE  Placed'
  <1>1. Layout(from, rank)'
    BY LayoutStays
  <1>2. Place' = Place
    BY DEF Place
  <1> QED BY <1>1, <1>2 DEF Placed

\* A header begins behind place q of the stream.
HeaderAt(q) == \A j \in 1 .. 5 : stream[q + j] = Header[j]

LEMMA HeaderInBuffer ==
  ASSUME SplitterType, NEW k \in 5 .. Len(DataBuffer)
  PROVE  HeaderEnds(DataBuffer, k) <=> HeaderAt(Base + k - 5)
  <1>1. DataBuffer \in Seq(Nat) /\ Len(DataBuffer) \in Nat /\ Base \in Nat
    BY BufferFacts
  <1>2. HeaderEnds(DataBuffer, k) <=> \A j \in 1 .. 5 : DataBuffer[k - 5 + j] = Header[j]
    BY <1>1, HeaderIs
  <1>3. ASSUME NEW j \in 1 .. 5 PROVE DataBuffer[k - 5 + j] = stream[Base + k - 5 + j]
    <2>1. k - 5 + j \in 1 .. Len(DataBuffer) /\ Base + (k - 5 + j) = Base + k - 5 + j
      BY <1>1
    <2>2. DataBuffer[k - 5 + j] = stream[Base + (k - 5 + j)]
      BY <2>1 DEF SplitterType
    <2> QED BY <2>1, <2>2
  <1> QED BY <1>2, <1>3 DEF HeaderAt

LEMMA NoneBetween ==
  ASSUME SplitterType,
         NEW from \in [Place -> 0 .. Len(stream)], NEW rank \in [Place -> 0 .. Len(due)],
         Layout(from, rank), NEW k \in 1 .. Len(packets),
         Harmless(packets[k]), TooLong(packets[k]),
         NEW q \in Nat, from[k] < q, q < from[k + 1], q + 5 <= Len(stream), HeaderAt(q)
  PROVE  FALSE
  <1>1. PICK p \in Nat, l \in Nat : p = from[k] /\ l = Len(packets[k])
    BY PacketAt
  <1>2. from[k + 1] = p + 10 + Overhead + l
    BY <1>1, PacketAt
  <1>3. PICK o : o = q - p
    OBVIOUS
  <1>4. p < q /\ q < p + 10 + Overhead + l
    BY <1>1, <1>2
  <1>5. o \in 1 .. 9 + Overhead + l /\ p + o = q
    BY <1>3, <1>4, SplitterAssumption
  <1>6. p + o + 5 <= Len(stream)
    BY <1>5
  <1>7. \A j \in 1 .. 5 : stream[p + o + j] = Header[j]
    BY <1>5 DEF HeaderAt
  <1> QED BY <1>1, <1>5, <1>6, <1>7, NoneInside

\* A header that the buffer holds is the one at cur, or one behind it.
LEMMA HeaderAtCur ==
  ASSUME SplitterType, AllHarmless,
         NEW from \in [Place -> 0 .. Len(stream)], NEW rank \in [Place -> 0 .. Len(due)],
         NEW cur \in Place, Layout(from, rank), Cursor(from, rank, cur),
         NEW q \in Nat, Base <= q, q + 5 <= read, HeaderAt(q)
  PROVE  from[cur] <= q /\ cur \in 1 .. Len(packets)
  <1>1. PICK b \in Nat, n \in Nat, t \in Nat : b = Base /\ n = Len(packets) /\ t = Len(stream)
    BY BufferFacts
  <1>2. read <= t /\ read \in Nat /\ q + 5 <= t
    BY <1>1, BufferFacts
  <1>3. PICK c \in Nat : c = from[cur]
    BY <1>1
  <1>4. cur \in 1 .. n + 1
    BY <1>1 DEF Place
  <1>5. c <= q
    <2> SUFFICES ASSUME q < c PROVE FALSE
      BY <1>3
    <2>1. b < c
      BY <1>1, <1>3
    <2>2. cur > 1 /\ TooLong(packets[cur - 1]) /\ from[cur - 1] < b
      BY <1>1, <1>3, <2>1 DEF Cursor
    <2>3. PICK h \in 1 .. n : h = cur - 1 /\ h + 1 = cur
      BY <1>4, <2>2
    <2>4. TooLong(packets[h]) /\ from[h] < b /\ from[h + 1] = c /\ h \in 1 .. Len(packets)
      BY <1>1, <1>3, <2>2, <2>3
    <2>5. Harmless(packets[h])
      BY <2>4, LenProperties DEF AllHarmless, SplitterType
    <2>6. PICK p \in Nat : p = from[h]
      BY <2>4, PacketAt
    <2>7. p < q
      BY <1>1, <2>4, <2>6
    <2> QED BY <1>1, <1>2, <2>4, <2>5, <2>6, <2>7, NoneBetween
  <1>6. cur # n + 1
    <2> SUFFICES ASSUME cur = n + 1 PROVE FALSE
      OBVIOUS
    <2>1. from[n + 1] = t
      BY <1>1 DEF Layout
    <2>2. c = t
      BY <1>3, <2>1
    <2> QED BY <1>2, <1>5, <2>2
  <1> QED BY <1>1, <1>3, <1>4, <1>5, <1>6

\* The header at cur is seen when the buffer holds it.
LEMMA HeaderSeen ==
  ASSUME SplitterType,
         NEW from \in [Place -> 0 .. Len(stream)], NEW rank \in [Place -> 0 .. Len(due)],
         NEW cur \in 1 .. Len(packets), Layout(from, rank),
         Base <= from[cur], from[cur] + 5 <= read
  PROVE  \E k \in 5 .. Len(DataBuffer) :
           HeaderEnds(DataBuffer, k) /\ k = from[cur] + 5 - Base
  <1>1. PICK b \in Nat, l \in Nat, c \in Nat :
          b = Base /\ l = Len(DataBuffer) /\ c = from[cur] /\ read = b + l
    BY BufferFacts, PacketAt
  <1>2. b <= c /\ c + 5 <= b + l
    BY <1>1
  <1>3. PICK k \in 5 .. l : k = c + 5 - b
    <2>1. c + 5 - b \in 5 .. l
      BY <1>2
    <2> QED BY <2>1
  <1>4. b + k - 5 = c
    BY <1>3
  <1>5. HeaderAt(c)
    BY <1>1, PacketAt DEF HeaderAt
  <1>6. HeaderEnds(DataBuffer, k)
    BY <1>1, <1>4, <1>5, HeaderInBuffer
  <1> QED BY <1>1, <1>3, <1>6

\* What the steps of the server have in common.
LEMMA ServerStep ==
  ASSUME SplitterInv, UNCHANGED <<packets, due, stream>>, SplitterType', Asleep',
         ASSUME AllHarmless, OutDue,
                NEW from \in [Place -> 0 .. Len(stream)],
                NEW rank \in [Place -> 0 .. Len(due)],
                NEW cur \in Place, Layout(from, rank), Cursor(from, rank, cur)
         PROVE  OutDue' /\ \E next \in Place : Cursor(from, rank, next)'
  PROVE  SplitterInv'
  <1> SUFFICES ASSUME AllHarmless' PROVE OutDue' /\ Placed'
    BY DEF SplitterInv
  <1>1. AllHarmless
    BY DEF AllHarmless
  <1>2. OutDue /\ Placed
    BY <1>1 DEF SplitterInv
  <1>3. PICK from \in [Place -> 0 .. Len(stream)], rank \in [Place -> 0 .. Len(due)],
             cur \in Place : Layout(from, rank) /\ Cursor(from, rank, cur)
    BY <1>2 DEF Placed
  <1>4. OutDue' /\ \E next \in Place : Cursor(from, rank, next)'
    BY <1>1, <1>2, <1>3
  <1>5. PICK next \in Place : Cursor(from, rank, next)'
    BY <1>4
  <1>6. Placed'
    BY <1>3, <1>5, PlacedAgain
  <1> QED BY <1>4, <1>6

LEMMA FindHeaderStep ==
  ASSUME SplitterInv, FindHeader
  PROVE  SplitterInv'
  <1>1. SplitterType /\ UNCHANGED <<packets, due, stream, read, DataBuffer, PacketSize, busy, out>>
    BY DEF SplitterInv, FindHeader
  <1>2. /\ StateNow = 0 /\ StateNow' = 1 /\ busy /\ haderFound' \in 5 .. Len(DataBuffer)
        /\ HeaderEnds(DataBuffer, haderFound')
        /\ \A j \in 1 .. haderFound' - 1 : ~HeaderEnds(DataBuffer, j)
    BY DEF FindHeader, In, HeaderEnds
  <1>3. Base' = Base
    BY <1>1 DEF Base
  <1>4. Len(DataBuffer) \in Nat
    BY <1>1, BufferFacts
  <1>5. haderFound' \in Nat
    BY <1>2, <1>4
  <1>6. SplitterType'
    BY <1>1, <1>2, <1>3, <1>5 DEF SplitterType
  <1>7. Asleep'
    BY <1>1, <1>2 DEF Asleep
  <1>8. ASSUME AllHarmless, OutDue,
               NEW from \in [Place -> 0 .. Len(stream)],
               NEW rank \in [Place -> 0 .. Len(due)],
               NEW cur \in Place, Layout(from, rank), Cursor(from, rank, cur)
        PROVE  OutDue' /\ Cursor(from, rank, cur)'
    <2>1. PICK k : k = haderFound'
      OBVIOUS
    <2>2. PICK b \in Nat, l \in Nat : b = Base /\ l = Len(DataBuffer) /\ read = b + l
      BY <1>1, BufferFacts
    <2>3. k \in 5 .. l
      BY <1>2, <2>1, <2>2
    <2>4. PICK q \in Nat : q = b + k - 5
      BY <2>3
    <2>5. b <= q /\ q + 5 <= read
      BY <2>2, <2>3, <2>4
    <2>6. HeaderAt(q)
      BY <1>1, <1>2, <2>1, <2>2, <2>3, <2>4, HeaderInBuffer
    <2>7. from[cur] <= q /\ cur \in 1 .. Len(packets)
      BY <1>1, <1>8, <2>2, <2>5, <2>6, HeaderAtCur
    <2>8. PICK c \in Nat : c = from[cur]
      BY <1>1, <1>8, BufferFacts
    <2>9. b <= c
      BY <1>8, <2>2, <2>8 DEF Cursor
    <2>10. c = q
      <3> SUFFICES ASSUME c # q PROVE FALSE
        OBVIOUS
      <3>1. c < q
        BY <2>7, <2>8
      <3>2. c + 5 <= read
        BY <2>5, <3>1, <2>2
      <3>3. PICK j \in 5 .. l : HeaderEnds(DataBuffer, j) /\ j = c + 5 - b
        BY <1>1, <1>8, <2>2, <2>7, <2>8, <2>9, <3>2, HeaderSeen
      <3>4. j \in 1 .. k - 1
        BY <2>3, <2>4, <3>1, <3>3
      <3> QED BY <1>2, <2>1, <3>3, <3>4
    <2>11. k = c + 5 - b /\ k <= l
      BY <2>3, <2>4, <2>10
    <2>12. Cursor(from, rank, cur)'
      <3>1. cur <= Len(packets)
        BY <1>1, <2>7, BufferFacts
      <3>2. haderFound' = from[cur] + 5 - Base /\ haderFound' <= Len(DataBuffer)
        BY <2>1, <2>2, <2>8, <2>11
      <3> QED BY <1>1, <1>2, <1>3, <1>8, <3>1, <3>2 DEF Cursor
    <2> QED BY <1>1, <1>8, <2>12 DEF OutDue
  <1> QED BY <1>1, <1>6, <1>7, <1>8, ServerStep

LEMMA NoHeaderStep ==
  ASSUME SplitterInv, NoHeader
  PROVE  SplitterInv'
  <1>1. /\ SplitterType
        /\ UNCHANGED <<packets, due, stream, read, haderFound, PacketSize, StateNow, out>>
    BY DEF SplitterInv, NoHeader
  <1>2. /\ StateNow = 0 /\ busy' = FALSE /\ DataBuffer' = LastFour(DataBuffer)
        /\ \A k \in DOMAIN DataBuffer : ~HeaderEnds(DataBuffer, k)
    BY DEF NoHeader, In
  <1>3. PICK b \in Nat, l \in Nat : b = Base /\ l = Len(DataBuffer) /\ read = b + l
    BY <1>1, BufferFacts
  <1>4. PICK cut \in 0 .. l : cut = IF l > 4 THEN l - 4 ELSE 0
    <2>1. CASE l > 4
      BY <2>1
    <2>2. CASE ~(l > 4)
      BY <2>2
    <2> QED BY <2>1, <2>2
  <1>5. DataBuffer' = SubSeq(DataBuffer, cut + 1, Len(DataBuffer))
    <2>1. cut + 1 = IF l > 4 THEN l - 3 ELSE 1
      BY <1>4
    <2> QED BY <1>2, <1>3, <2>1 DEF LastFour
  <1>6. /\ DataBuffer' \in Seq(Nat) /\ Len(DataBuffer') = l - cut
        /\ Len(DataBuffer') <= read' /\ Base' = b + cut
        /\ \A k \in 1 .. Len(DataBuffer') : DataBuffer'[k] = stream'[Base' + k]
    BY <1>1, <1>3, <1>5, CutFacts
  <1>7. SplitterType'
    BY <1>1, <1>2, <1>6 DEF SplitterType
  <1>8. Asleep'
    <2>1. l - cut <= 4
      BY <1>4
    <2> QED BY <1>1, <1>2, <1>6, <2>1 DEF Asleep
  <1>9. ASSUME AllHarmless, OutDue,
               NEW from \in [Place -> 0 .. Len(stream)],
               NEW rank \in [Place -> 0 .. Len(due)],
               NEW cur \in Place, Layout(from, rank), Cursor(from, rank, cur)
        PROVE  OutDue' /\ Cursor(from, rank, cur)'
    <2>1. PICK c \in Nat : c = from[cur]
      BY <1>1, <1>9, BufferFacts
    <2>2. b <= c
      BY <1>3, <1>9, <2>1 DEF Cursor
    <2>3. b + cut <= c
      <3> SUFFICES ASSUME c < b + cut PROVE FALSE
        BY <1>4, <2>1
      <3>1. l > 4 /\ cut = l - 4
        BY <1>4, <2>2
      <3>2. c + 5 <= read
        BY <1>3, <3>1
      <3>3. cur \in 1 .. Len(packets)
        <4>1. PICK n \in Nat, t \in Nat : n = Len(packets) /\ t = Len(stream)
          BY <1>1, BufferFacts
        <4>2. read <= t /\ from[n + 1] = t
          BY <1>1, <1>9, <4>1, BufferFacts DEF Layout
        <4>3. cur # n + 1
          <5> SUFFICES ASSUME cur = n + 1 PROVE FALSE
            OBVIOUS
          <5>1. c = t
            BY <2>1, <4>2
          <5> QED BY <1>3, <3>2, <4>2, <5>1
        <4> QED BY <1>9, <4>1, <4>3 DEF Place
      <3>4. \E k \in 5 .. Len(DataBuffer) : HeaderEnds(DataBuffer, k)
        BY <1>1, <1>3, <1>9, <2>1, <2>2, <3>2, <3>3, HeaderSeen
      <3>5. 5 .. Len(DataBuffer) \subseteq DOMAIN DataBuffer
        BY <1>1, BufferFacts
      <3> QED BY <1>2, <3>4, <3>5
    <2>4. b + cut < c => cur > 1 /\ TooLong(packets[cur - 1]) /\ from[cur - 1] < b + cut
      <3> SUFFICES ASSUME b + cut < c
                   PROVE  cur > 1 /\ TooLong(packets[cur - 1]) /\ from[cur - 1] < b + cut
        OBVIOUS
      <3>1. cur > 1 /\ TooLong(packets[cur - 1]) /\ from[cur - 1] < b
        <4>1. b < c
          BY <1>4
        <4> QED BY <1>3, <1>9, <2>1, <4>1 DEF Cursor
      <3>2. cur - 1 \in Place
        BY <1>1, <1>9, <3>1, BufferFacts DEF Place
      <3>3. from[cur - 1] \in Nat
        BY <1>1, <1>9, <3>2, BufferFacts
      <3> QED BY <1>4, <3>1, <3>3
    <2>5. Cursor(from, rank, cur)'
      BY <1>1, <1>2, <1>6, <1>9, <2>1, <2>3, <2>4 DEF Cursor
    <2> QED BY <1>1, <1>9, <2>5 DEF OutDue
  <1> QED BY <1>1, <1>7, <1>8, <1>9, ServerStep

LEMMA PackLengthFacts ==
  ASSUME NEW n \in Nat
  PROVE  PackLength(n) \in Seq(Nat) /\ Len(PackLength(n)) = 4
  <1>1. n % 256 \in Nat /\ (n \div 256) % 256 \in Nat
    BY DivFacts
  <1>2. n \div 65536 \in Nat /\ n \div 16777216 \in Nat
    BY SMT
  <1>3. (n \div 65536) % 256 \in Nat
    BY <1>2, DivFacts
  <1> QED BY SMT, <1>1, <1>2, <1>3 DEF PackLength

LEMMA LengthOf ==
  ASSUME NEW f \in Seq(Byte), Harmless(f)
  PROVE  UnpackLength(PackLength(Len(f) + Overhead)) = Len(f) + Overhead
  <1>1. Len(f) + Overhead \in Nat
    BY BytesAreNats, SplitterAssumption
  <1>2. Len(f) + Overhead <= 2147483647
    BY SMT DEF Harmless
  <1> QED BY SMT, <1>1, <1>2, LengthBack

LEMMA UnpackInt ==
  ASSUME NEW b \in Seq(Nat), Len(b) = 4
  PROVE  UnpackLength(b) \in Int
  <1>1. b[1] \in Nat /\ b[2] \in Nat /\ b[3] \in Nat /\ b[4] \in Nat
    <2>1. \A i \in 1 .. Len(b) : b[i] \in Nat
      BY ElementOfSeq
    <2> QED BY <2>1
  <1> QED BY SMT, <1>1 DEF UnpackLength

\* What stands behind place a of the buffer.
LEMMA InBuffer ==
  ASSUME SplitterType, NEW a \in Nat, NEW n \in Nat, a + n <= Len(DataBuffer)
  PROVE  /\ SubSeq(DataBuffer, a + 1, a + n) \in Seq(Nat)
         /\ Len(SubSeq(DataBuffer, a + 1, a + n)) = n
         /\ \A j \in 1 .. n : SubSeq(DataBuffer, a + 1, a + n)[j] = stream[Base + a + j]
  <1>1. PICK l \in Nat, b \in Nat : l = Len(DataBuffer) /\ b = Base
    BY BufferFacts
  <1>2. a \in 0 .. l /\ a + n \in a .. l /\ (a + n) - a = n
    BY <1>1
  <1>3. PICK s : s = SubSeq(DataBuffer, a + 1, a + n)
    OBVIOUS
  <1>4. /\ SubSeq(DataBuffer, a + 1, a + n) \in Seq(Nat)
        /\ Len(SubSeq(DataBuffer, a + 1, a + n)) = (a + n) - a
        /\ \A j \in 1 .. (a + n) - a : SubSeq(DataBuffer, a + 1, a + n)[j] = DataBuffer[a + j]
    BY <1>1, <1>2, BufferFacts, SubSeqFacts
  <1>5. s \in Seq(Nat) /\ Len(s) = n /\ \A j \in 1 .. n : s[j] = DataBuffer[a + j]
    BY <1>2, <1>3, <1>4
  <1>6. ASSUME NEW j \in 1 .. n PROVE DataBuffer[a + j] = stream[b + a + j]
    <2>1. a + j \in 1 .. l /\ b + (a + j) = b + a + j
      BY <1>2
    <2>2. DataBuffer[a + j] = stream[b + (a + j)]
      BY <1>1, <2>1 DEF SplitterType
    <2> QED BY <2>1, <2>2
  <1> QED BY <1>1, <1>3, <1>5, <1>6

\* The length that the server reads is that of the packet at cur.
LEMMA SizeRead ==
  ASSUME SplitterType, AllHarmless,
         NEW from \in [Place -> 0 .. Len(stream)], NEW rank \in [Place -> 0 .. Len(due)],
         NEW cur \in Place, Layout(from, rank), Cursor(from, rank, cur),
         StateNow = 1, Rest > 5
  PROVE  /\ cur \in 1 .. Len(packets) /\ packets[cur] \in Seq(Byte)
         /\ UnpackLength(SubSeq(DataBuffer, haderFound + 1, haderFound + 4))
              = Len(packets[cur]) + Overhead
  <1>1. PICK b \in Nat, l \in Nat, c \in Nat, h \in Nat :
          b = Base /\ l = Len(DataBuffer) /\ c = from[cur] /\ h = haderFound
    BY BufferFacts DEF SplitterType
  <1>2. cur \in 1 .. Len(packets)
    BY BufferFacts DEF Cursor, Place
  <1>3. h = c + 5 - b /\ l - h > 5
    BY <1>1 DEF Cursor, Rest
  <1>4. h + 4 <= l /\ b + h = c + 5
    BY <1>3
  <1>5. PICK s : s = SubSeq(DataBuffer, h + 1, h + 4)
    OBVIOUS
  <1>6. s \in Seq(Nat) /\ Len(s) = 4 /\ \A j \in 1 .. 4 : s[j] = stream[b + h + j]
    BY <1>1, <1>4, <1>5, InBuffer
  <1>7. PICK f : f = packets[cur]
    OBVIOUS
  <1>8. f \in Seq(Byte) /\ Harmless(f)
    <2>1. f \in Seq(Byte)
      BY <1>2, <1>7, PacketAt
    <2>2. cur \in DOMAIN packets
      BY <1>2, LenProperties DEF SplitterType
    <2> QED BY <1>7, <2>1, <2>2 DEF AllHarmless
  <1>9. Len(f) + Overhead \in Nat
    BY <1>8, BytesAreNats, SplitterAssumption
  <1>10. \A j \in 1 .. 4 : stream[c + 5 + j] = PackLength(Len(f) + Overhead)[j]
    BY <1>1, <1>2, <1>7, PacketAt
  <1>11. s = PackLength(Len(f) + Overhead)
    <2>1. PICK p : p = PackLength(Len(f) + Overhead)
      OBVIOUS
    <2>2. p \in Seq(Nat) /\ Len(p) = 4
      BY <1>9, <2>1, PackLengthFacts
    <2>3. \A j \in 1 .. 4 : s[j] = p[j]
      BY <1>4, <1>6, <1>10, <2>1
    <2> QED BY <1>6, <2>1, <2>2, <2>3, SeqEqual
  <1>12. UnpackLength(s) = Len(f) + Overhead
    BY <1>8, <1>11, LengthOf
  <1> QED BY <1>1, <1>2, <1>5, <1>7, <1>8, <1>12

LEMMA ReadSizeStep ==
  ASSUME SplitterInv, ReadSize
  PROVE  SplitterInv'
  <1>1. /\ SplitterType /\ UNCHANGED <<packets, due, stream, read, busy, out>>
        /\ busy /\ StateNow = 1 /\ Rest > 5
    BY DEF SplitterInv, ReadSize, In, NextPacket
  <1>2. PICK n : n = UnpackLength(SubSeq(DataBuffer, haderFound + 1, haderFound + 4))
    OBVIOUS
  <1>3. PICK b \in Nat, l \in Nat, h \in Nat :
          b = Base /\ l = Len(DataBuffer) /\ h = haderFound /\ l - h > 5
    BY <1>1, BufferFacts DEF SplitterType, Rest
  <1>4. n \in Int
    <2>1. h + 4 <= l
      BY <1>3
    <2>2. /\ SubSeq(DataBuffer, h + 1, h + 4) \in Seq(Nat)
          /\ Len(SubSeq(DataBuffer, h + 1, h + 4)) = 4
      BY <1>1, <1>3, <2>1, InBuffer
    <2> QED BY <1>2, <1>3, <2>2, UnpackInt
  <1>5. Asleep'
    BY <1>1 DEF Asleep
  <1>6. CASE n <= 0 \/ n >= maxPacketSize
    <2>1. NextPacket(1)
      BY <1>2, <1>6 DEF ReadSize
    <2>2. 1 \in 0 .. Len(DataBuffer)
      BY <1>3
    <2>3. /\ DataBuffer' \in Seq(Nat) /\ Len(DataBuffer') <= read' /\ Base' = b + 1
          /\ \A k \in 1 .. Len(DataBuffer') : DataBuffer'[k] = stream'[Base' + k]
      BY <1>1, <1>3, <2>1, <2>2, CutFacts DEF NextPacket
    <2>4. haderFound' = 0 /\ PacketSize' = 0 /\ StateNow' = 0
      BY <2>1 DEF NextPacket
    <2>5. SplitterType'
      BY <1>1, <2>3, <2>4 DEF SplitterType
    <2>6. ASSUME AllHarmless, OutDue,
                 NEW from \in [Place -> 0 .. Len(stream)],
                 NEW rank \in [Place -> 0 .. Len(due)],
                 NEW cur \in Place, Layout(from, rank), Cursor(from, rank, cur)
          PROVE  OutDue' /\ \E next \in Place : Cursor(from, rank, next)'
      <3>1. /\ cur \in 1 .. Len(packets) /\ packets[cur] \in Seq(Byte)
            /\ n = Len(packets[cur]) + Overhead
        BY <1>1, <1>2, <2>6, SizeRead
      <3>2. TooLong(packets[cur])
        BY <1>6, <3>1, BytesAreNats, SplitterAssumption DEF TooLong
      <3>3. PICK c \in Nat, d \in Nat : c = from[cur] /\ d = from[cur + 1] /\ c + 10 <= d
        <4>1. from[cur] \in Nat /\ cur + 1 \in Place /\ Len(packets[cur]) \in Nat
              /\ from[cur + 1] = from[cur] + 10 + Overhead + Len(packets[cur])
          BY <1>1, <2>6, <3>1, PacketAt
        <4>2. from[cur + 1] \in Nat
          BY <1>1, <2>6, <4>1, BufferFacts
        <4> QED BY <4>1, <4>2, SplitterAssumption
      <3>4. b <= c
        BY <1>3, <2>6, <3>3 DEF Cursor
      <3>5. CASE b = c
        <4>1. cur + 1 \in Place /\ (cur + 1) - 1 = cur /\ cur + 1 > 1
          <5>1. cur + 1 \in Place
            BY <1>1, <2>6, <3>1, PacketAt
          <5>2. cur \in Nat /\ cur >= 1
            BY <3>1
          <5> QED BY <5>1, <5>2
        <4>2. rank[cur + 1] = rank[cur]
          <5>1. rank[cur + 1] = rank[cur] + 0
            BY <3>1, <3>2, <2>6 DEF Layout
          <5>2. rank[cur] \in Nat
            BY <1>1, <2>6, BufferFacts
          <5> QED BY <5>1, <5>2
        <4>3. b + 1 <= d /\ from[cur] < b + 1
          BY <3>3, <3>5
        <4>4. Cursor(from, rank, cur + 1)'
          BY <1>1, <2>3, <2>4, <2>6, <3>2, <3>3, <4>1, <4>2, <4>3 DEF Cursor
        <4> QED BY <1>1, <2>6, <4>1, <4>4 DEF OutDue
      <3>6. CASE b # c
        <4>1. b + 1 <= c /\ b < c
          BY <3>4, <3>6
        <4>2. cur > 1 /\ TooLong(packets[cur - 1]) /\ from[cur - 1] < b
          BY <1>3, <2>6, <3>3, <4>1 DEF Cursor
        <4>3. from[cur - 1] < b + 1
          <5>1. cur - 1 \in Place
            BY <1>1, <2>6, <4>2, BufferFacts DEF Place
          <5>2. from[cur - 1] \in Nat
            BY <1>1, <2>6, <5>1, BufferFacts
          <5> QED BY <4>2, <5>2
        <4>4. Cursor(from, rank, cur)'
          BY <1>1, <2>3, <2>4, <2>6, <3>3, <4>1, <4>2, <4>3 DEF Cursor
        <4> QED BY <1>1, <2>6, <4>4 DEF OutDue
      <3> QED BY <3>5, <3>6
    <2> QED BY <1>1, <1>5, <2>5, <2>6, ServerStep
  <1>7. CASE ~(n <= 0 \/ n >= maxPacketSize)
    <2>1. PacketSize' = n /\ StateNow' = 2 /\ UNCHANGED <<DataBuffer, haderFound>>
      BY <1>2, <1>7 DEF ReadSize
    <2>2. n \in Nat /\ Base' = Base
      BY <1>1, <1>4, <1>7, <2>1 DEF Base
    <2>3. SplitterType'
      BY <1>1, <2>1, <2>2 DEF SplitterType
    <2>4. ASSUME AllHarmless, OutDue,
                 NEW from \in [Place -> 0 .. Len(stream)],
                 NEW rank \in [Place -> 0 .. Len(due)],
                 NEW cur \in Place, Layout(from, rank), Cursor(from, rank, cur)
          PROVE  OutDue' /\ \E next \in Place : Cursor(from, rank, next)'
      <3>1. n = Len(packets[cur]) + Overhead
        BY <1>1, <1>2, <2>4, SizeRead
      <3>2. ~TooLong(packets[cur])
        BY <1>4, <1>7, <3>1, SplitterAssumption DEF TooLong
      <3>3. Cursor(from, rank, cur)'
        BY <1>1, <2>1, <2>2, <2>4, <3>1, <3>2 DEF Cursor
      <3> QED BY <1>1, <2>4, <3>3 DEF OutDue
    <2> QED BY <1>1, <1>5, <2>3, <2>4, ServerStep
  <1> QED BY <1>6, <1>7

LEMMA WaitStep ==
  ASSUME SplitterInv, Wait
  PROVE  SplitterInv'
  <1>1. /\ SplitterType /\ busy' = FALSE
        /\ UNCHANGED <<packets, due, stream, read, DataBuffer, haderFound, PacketSize,
                       StateNow, out>>
    BY DEF SplitterInv, Wait
  <1>2. (StateNow = 1 /\ Rest <= 5) \/ (StateNow = 2 /\ Rest - 5 < PacketSize)
    BY DEF Wait, In
  <1>3. Base' = Base /\ Rest' = Rest
    BY <1>1 DEF Base, Rest
  <1>4. SplitterType'
    BY <1>1, <1>3 DEF SplitterType
  <1>5. Asleep'
    BY <1>1, <1>2, <1>3 DEF Asleep
  <1>6. ASSUME AllHarmless, OutDue,
               NEW from \in [Place -> 0 .. Len(stream)],
               NEW rank \in [Place -> 0 .. Len(due)],
               NEW cur \in Place, Layout(from, rank), Cursor(from, rank, cur)
        PROVE  OutDue' /\ Cursor(from, rank, cur)'
    BY <1>1, <1>3, <1>6 DEF OutDue, Cursor
  <1> QED BY <1>1, <1>4, <1>5, <1>6, ServerStep

LEMMA TakePacketStep ==
  ASSUME SplitterInv, TakePacket
  PROVE  SplitterInv'
  <1>1. /\ SplitterType /\ UNCHANGED <<packets, due, stream, read, busy>>
        /\ busy /\ StateNow = 2 /\ Rest - 5 >= PacketSize
        /\ haderFound' = 0 /\ PacketSize' = 0 /\ StateNow' = 0
    BY DEF SplitterInv, TakePacket, In, NextPacket
  <1>2. PICK b \in Nat, l \in Nat, h \in Nat, n \in Nat :
          /\ b = Base /\ l = Len(DataBuffer) /\ h = haderFound /\ n = PacketSize
          /\ h + 5 + n <= l
    <2>1. /\ Base \in Nat /\ Len(DataBuffer) \in Nat /\ haderFound \in Nat
          /\ PacketSize \in Nat
      BY <1>1, BufferFacts DEF SplitterType
    <2>2. haderFound + 5 + PacketSize <= Len(DataBuffer)
      BY <1>1, <2>1 DEF Rest
    <2> QED BY <2>1, <2>2
  <1>3. PICK s : s = SubSeq(DataBuffer, h + 6, h + 5 + n)
    OBVIOUS
  <1>4. out' = Append(out, s)
    BY <1>2, <1>3 DEF TakePacket
  <1>5. s \in Seq(Nat) /\ Len(s) = n /\ \A j \in 1 .. n : s[j] = stream[b + (h + 5) + j]
    <2>1. h + 5 \in Nat /\ (h + 5) + 1 = h + 6 /\ (h + 5) + n <= l
      BY <1>2
    <2>2. /\ SubSeq(DataBuffer, (h + 5) + 1, (h + 5) + n) \in Seq(Nat)
          /\ Len(SubSeq(DataBuffer, (h + 5) + 1, (h + 5) + n)) = n
          /\ \A j \in 1 .. n :
               SubSeq(DataBuffer, (h + 5) + 1, (h + 5) + n)[j] = stream[Base + (h + 5) + j]
      BY <1>1, <1>2, <2>1, InBuffer
    <2> QED BY <1>2, <1>3, <2>1, <2>2
  <1>6. /\ DataBuffer' \in Seq(Nat) /\ Len(DataBuffer') <= read'
        /\ Base' = b + (h + 5 + n)
        /\ \A k \in 1 .. Len(DataBuffer') : DataBuffer'[k] = stream'[Base' + k]
    <2>1. h + 5 + n \in 0 .. Len(DataBuffer)
      BY <1>2
    <2>2. DataBuffer' = SubSeq(DataBuffer, (h + 5 + n) + 1, Len(DataBuffer))
      BY <1>2 DEF TakePacket, NextPacket
    <2> QED BY <1>1, <1>2, <2>1, <2>2, CutFacts
  <1>7. SplitterType'
    <2>1. out' \in Seq(Seq(Nat))
      BY <1>1, <1>4, <1>5, AppendFacts DEF SplitterType
    <2> QED BY <1>1, <1>6, <2>1 DEF SplitterType
  <1>8. Asleep'
    BY <1>1 DEF Asleep
  <1>9. ASSUME AllHarmless, OutDue,
               NEW from \in [Place -> 0 .. Len(stream)],
               NEW rank \in [Place -> 0 .. Len(due)],
               NEW cur \in Place, Layout(from, rank), Cursor(from, rank, cur)
        PROVE  OutDue' /\ \E next \in Place : Cursor(from, rank, next)'
    <2>1. cur \in 1 .. Len(packets)
      BY <1>1, <1>9, BufferFacts DEF Cursor, Place
    <2>2. PICK f : f = packets[cur]
      OBVIOUS
    <2>3. /\ f \in Seq(Byte) /\ ~TooLong(f) /\ n = Len(f) + Overhead
          /\ h = from[cur] + 5 - b /\ n = Overhead + Len(f)
      <3>1. f \in Seq(Byte)
        BY <1>1, <1>9, <2>1, <2>2, PacketAt
      <3>2. ~TooLong(f) /\ n = Len(f) + Overhead /\ h = from[cur] + 5 - b
        BY <1>1, <1>2, <1>9, <2>2 DEF Cursor
      <3> QED BY <3>1, <3>2, BytesAreNats, SplitterAssumption
    <2>4. PICK c \in Nat : c = from[cur]
      BY <1>1, <1>9, BufferFacts
    <2>5. b + (h + 5) = c + 10 /\ b + (h + 5 + n) = c + 10 + n
      <3>1. h = c + 5 - b
        BY <2>3, <2>4
      <3>2. b + h = c + 5
        BY <1>2, <3>1
      <3> QED BY <1>2, <3>2
    <2>6. s = Body(f)
      <3>1. PICK t : t = Body(f)
        OBVIOUS
      <3>2. t \in Seq(Nat) /\ Len(t) = n
        BY <2>3, <3>1, BodyFacts
      <3>3. \A j \in 1 .. n : stream[c + 10 + j] = t[j]
        BY <1>1, <1>9, <2>1, <2>2, <2>3, <2>4, <3>1, PacketAt
      <3>4. \A j \in 1 .. n : s[j] = t[j]
        BY <1>5, <2>5, <3>3
      <3> QED BY <1>5, <3>1, <3>2, <3>4, SeqEqual
    <2>7. /\ cur + 1 \in Place /\ from[cur + 1] = c + 10 + n
      <3>1. /\ cur + 1 \in Place
            /\ from[cur + 1] = from[cur] + 10 + Overhead + Len(packets[cur])
            /\ Len(f) \in Nat
        BY <1>1, <1>9, <2>1, <2>2, PacketAt
      <3>2. c + 10 + Overhead + Len(f) = c + 10 + (Overhead + Len(f))
        BY <3>1, SplitterAssumption
      <3> QED BY <2>2, <2>3, <2>4, <3>1, <3>2
    <2>8. PICK r \in Nat : /\ r = rank[cur] /\ r = Len(out) /\ rank[cur + 1] = r + 1
                           /\ r + 1 <= Len(due) /\ due[r + 1] = s
      <3>1. rank[cur] \in Nat /\ rank[cur] = Len(out)
        BY <1>1, <1>9, BufferFacts DEF Cursor
      <3>2. rank[cur + 1] = rank[cur] + 1 /\ due[rank[cur] + 1] = s
        BY <1>9, <2>1, <2>2, <2>3, <2>6 DEF Layout
      <3>3. rank[cur + 1] <= Len(due)
        BY <1>1, <1>9, <2>7, BufferFacts
      <3> QED BY <3>1, <3>2, <3>3
    <2>9. Len(out') = r + 1 /\ out'[r + 1] = s /\ \A k \in 1 .. r : out'[k] = out[k]
      BY <1>1, <1>4, <1>5, <2>8, AppendFacts DEF SplitterType
    <2>10. OutDue'
      <3>1. ASSUME NEW k \in 1 .. r + 1 PROVE out'[k] = due[k]
        <4>1. CASE k = r + 1
          BY <2>8, <2>9, <4>1
        <4>2. CASE k # r + 1
          <5>1. k \in 1 .. r
            BY <4>2
          <5> QED BY <1>9, <2>8, <2>9, <5>1 DEF OutDue
        <4> QED BY <4>1, <4>2
      <3> QED BY <1>1, <2>8, <2>9, <3>1 DEF OutDue
    <2>11. Cursor(from, rank, cur + 1)'
      <3>1. Base' = from[cur + 1] /\ Base' \in Nat
        BY <1>2, <1>6, <2>5, <2>7
      <3>2. Len(out') = rank[cur + 1]
        BY <2>8, <2>9
      <3> QED BY <1>1, <3>1, <3>2 DEF Cursor
    <2> QED BY <2>7, <2>10, <2>11
  <1> QED BY <1>1, <1>7, <1>8, <1>9, ServerStep

LEMMA NewStreamStep ==
  ASSUME SplitterInv, NEW n \in 1 .. Len(stream) - read, NewStream(n)
  PROVE  SplitterInv'
  <1>1. /\ SplitterType /\ busy' = TRUE /\ read' = read + n
        /\ UNCHANGED <<packets, due, stream, haderFound, PacketSize, StateNow, out>>
    BY DEF SplitterInv, NewStream
  <1>2. PICK b \in Nat, l \in Nat, t \in Nat :
          b = Base /\ l = Len(DataBuffer) /\ t = Len(stream) /\ read = b + l /\ read \in Nat
    BY <1>1, BufferFacts
  <1>3. n \in Nat /\ read + n <= t
    BY <1>2
  <1>4. PICK s : s = SubSeq(stream, read + 1, read + n)
    OBVIOUS
  <1>5. s \in Seq(Nat) /\ Len(s) = n /\ \A j \in 1 .. n : s[j] = stream[read + j]
    <2>1. read \in 0 .. t /\ read + n \in read .. t /\ (read + n) - read = n
      BY <1>2, <1>3
    <2>2. /\ SubSeq(stream, read + 1, read + n) \in Seq(Nat)
          /\ Len(SubSeq(stream, read + 1, read + n)) = (read + n) - read
          /\ \A j \in 1 .. (read + n) - read :
               SubSeq(stream, read + 1, read + n)[j] = stream[read + j]
      <3>1. stream \in Seq(Nat) /\ read \in 0 .. Len(stream) /\ read + n \in read .. Len(stream)
        BY <1>1, <1>2, <2>1 DEF SplitterType
      <3> QED BY <3>1, SubSeqFacts
    <2> QED BY <1>4, <2>1, <2>2
  <1>6. DataBuffer' = Cat(DataBuffer, s)
    BY <1>4 DEF NewStream, Cat
  <1>7. PICK d : d = Cat(DataBuffer, s)
    OBVIOUS
  <1>8. /\ d \in Seq(Nat) /\ Len(d) = l + n
        /\ \A j \in 1 .. l : d[j] = DataBuffer[j]
        /\ \A j \in 1 .. n : d[l + j] = s[j]
    <2>1. DataBuffer \in Seq(Nat)
      BY <1>1, BufferFacts
    <2>2. /\ Cat(DataBuffer, s) \in Seq(Nat)
          /\ Len(Cat(DataBuffer, s)) = Len(DataBuffer) + Len(s)
          /\ Len(DataBuffer) \in Nat /\ Len(s) \in Nat
          /\ \A j \in 1 .. Len(DataBuffer) : Cat(DataBuffer, s)[j] = DataBuffer[j]
          /\ \A j \in 1 .. Len(s) : Cat(DataBuffer, s)[Len(DataBuffer) + j] = s[j]
      BY <1>5, <2>1, CatFacts
    <2> QED BY <1>2, <1>5, <1>7, <2>2
  <1>9. Base' = b
    <2>1. Base' = (read + n) - Len(d)
      BY <1>1, <1>6, <1>7 DEF Base
    <2> QED BY <1>2, <1>3, <1>8, <2>1
  <1>10. ASSUME NEW k \in 1 .. l + n PROVE d[k] = stream[b + k]
    <2>1. CASE k <= l
      <3>1. k \in 1 .. l
        BY <2>1
      <3> QED BY <1>1, <1>2, <1>8, <3>1 DEF SplitterType
    <2>2. CASE ~(k <= l)
      <3>1. PICK j \in 1 .. n : k = l + j /\ read + j = b + k
        <4>1. k - l \in 1 .. n /\ k = l + (k - l) /\ read + (k - l) = b + k
          BY <1>2, <1>3, <2>2
        <4> QED BY <4>1
      <3> QED BY <1>5, <1>8, <3>1
    <2> QED BY <2>1, <2>2
  <1>11. SplitterType'
    <2>1. read' \in 0 .. Len(stream') /\ Len(DataBuffer') <= read'
      BY <1>1, <1>2, <1>3, <1>6, <1>7, <1>8
    <2>2. \A k \in 1 .. Len(DataBuffer') : DataBuffer'[k] = stream'[Base' + k]
      BY <1>1, <1>6, <1>7, <1>8, <1>9, <1>10
    <2> QED BY <1>1, <1>6, <1>7, <1>8, <2>1, <2>2 DEF SplitterType
  <1>12. Asleep'
    BY <1>1 DEF Asleep
  <1>13. ASSUME AllHarmless, OutDue,
               NEW from \in [Place -> 0 .. Len(stream)],
               NEW rank \in [Place -> 0 .. Len(due)],
               NEW cur \in Place, Layout(from, rank), Cursor(from, rank, cur)
        PROVE  OutDue' /\ Cursor(from, rank, cur)'
    <2>1. StateNow # 0 => haderFound <= Len(DataBuffer')
      <3>1. StateNow # 0 => haderFound <= l
        BY <1>2, <1>13 DEF Cursor
      <3>2. haderFound \in Nat /\ Len(DataBuffer') = l + n
        BY <1>1, <1>6, <1>7, <1>8 DEF SplitterType
      <3> QED BY <1>3, <3>1, <3>2
    <2>2. Cursor(from, rank, cur)'
      BY <1>1, <1>2, <1>9, <1>13, <2>1 DEF Cursor
    <2> QED BY <1>1, <1>13, <2>2 DEF OutDue
  <1> QED BY <1>1, <1>11, <1>12, <1>13, ServerStep

-----------------------------------------------------------------------------
(* The proxy packs a frame.                                                *)

LEMMA SendFacts ==
  ASSUME SplitterType, NEW f \in Seq(Byte), SendPacket(f)
  PROVE  /\ packets' \in Seq(Seq(Byte)) /\ Len(packets') = Len(packets) + 1
         /\ \A k \in 1 .. Len(packets) : packets'[k] = packets[k]
         /\ packets'[Len(packets) + 1] = f
         /\ stream' \in Seq(Nat) /\ Len(stream') = Len(stream) + PackedLen(f)
         /\ \A j \in 1 .. Len(stream) : stream'[j] = stream[j]
         /\ \A j \in 1 .. PackedLen(f) : stream'[Len(stream) + j] = Pack(f)[j]
         /\ due' \in Seq(Seq(Nat))
         /\ Len(due') = Len(due) + (IF TooLong(f) THEN 0 ELSE 1)
         /\ \A k \in 1 .. Len(due) : due'[k] = due[k]
         /\ ~TooLong(f) => due'[Len(due) + 1] = Body(f)
         /\ PackedLen(f) \in Nat
  <1>1. packets \in Seq(Seq(Byte)) /\ due \in Seq(Seq(Nat)) /\ stream \in Seq(Nat)
    BY DEF SplitterType
  <1>2. /\ packets' \in Seq(Seq(Byte)) /\ Len(packets') = Len(packets) + 1
        /\ \A k \in 1 .. Len(packets) : packets'[k] = packets[k]
        /\ packets'[Len(packets) + 1] = f
    BY <1>1, AppendFacts DEF SendPacket
  <1>3. PICK p : p = Pack(f)
    OBVIOUS
  <1>4. p \in Seq(Nat) /\ Len(p) = PackedLen(f)
    BY <1>3, PackFacts
  <1>5. /\ Cat(stream, p) \in Seq(Nat) /\ Len(Cat(stream, p)) = Len(stream) + Len(p)
        /\ Len(stream) \in Nat /\ Len(p) \in Nat
        /\ \A j \in 1 .. Len(stream) : Cat(stream, p)[j] = stream[j]
        /\ \A j \in 1 .. Len(p) : Cat(stream, p)[Len(stream) + j] = p[j]
    BY <1>1, <1>4, CatFacts
  <1>6. stream' = Cat(stream, p)
    BY <1>3 DEF SendPacket, Cat
  <1>7. Body(f) \in Seq(Nat)
    BY BodyFacts
  <1>8. CASE TooLong(f)
    <2>1. due' = due
      BY <1>8 DEF SendPacket
    <2>2. Len(due) \in Nat
      BY <1>1, LenProperties
    <2> QED BY <1>1, <1>2, <1>3, <1>4, <1>5, <1>6, <1>8, <2>1, <2>2
  <1>9. CASE ~TooLong(f)
    <2>1. due' = Append(due, Body(f))
      BY <1>9 DEF SendPacket
    <2>2. /\ due' \in Seq(Seq(Nat)) /\ Len(due') = Len(due) + 1
          /\ \A k \in 1 .. Len(due) : due'[k] = due[k]
          /\ due'[Len(due) + 1] = Body(f)
      BY <1>1, <1>7, <2>1, AppendFacts
    <2> QED BY <1>2, <1>3, <1>4, <1>5, <1>6, <1>9, <2>2
  <1> QED BY <1>8, <1>9

LEMMA SendPlaced ==
  ASSUME SplitterType, NEW f \in Seq(Byte), SendPacket(f),
         NEW from \in [Place -> 0 .. Len(stream)], NEW rank \in [Place -> 0 .. Len(due)],
         NEW cur \in Place, Layout(from, rank), Cursor(from, rank, cur)
  PROVE  Placed'
  <1>1. PICK n \in Nat, t \in Nat, m \in Nat, p \in Nat, r \in 0 .. 1 :
          /\ n = Len(packets) /\ t = Len(stream) /\ m = Len(due) /\ p = PackedLen(f)
          /\ r = IF TooLong(f) THEN 0 ELSE 1
    <2>1. Len(packets) \in Nat /\ Len(stream) \in Nat /\ Len(due) \in Nat
      BY BufferFacts
    <2>2. PackedLen(f) \in Nat
      BY SendFacts
    <2>3. (IF TooLong(f) THEN 0 ELSE 1) \in 0 .. 1
      OBVIOUS
    <2> QED BY <2>1, <2>2, <2>3
  <1>2. /\ Len(packets') = n + 1 /\ packets'[n + 1] = f
        /\ \A k \in 1 .. n : packets'[k] = packets[k]
        /\ Len(stream') = t + p
        /\ \A j \in 1 .. t : stream'[j] = stream[j]
        /\ \A j \in 1 .. p : stream'[t + j] = Pack(f)[j]
        /\ Len(due') = m + r
        /\ \A k \in 1 .. m : due'[k] = due[k]
        /\ ~TooLong(f) => due'[m + 1] = Body(f)
    BY <1>1, SendFacts
  <1>3. Place = 1 .. n + 1 /\ Place' = 1 .. n + 2
    BY <1>1, <1>2 DEF Place
  <1>4. PICK from2 : from2 = [k \in 1 .. n + 2 |-> IF k = n + 2 THEN t + p ELSE from[k]]
    OBVIOUS
  <1>5. PICK rank2 : rank2 = [k \in 1 .. n + 2 |-> IF k = n + 2 THEN m + r ELSE rank[k]]
    OBVIOUS
  <1>6. \A k \in 1 .. n + 1 : /\ from[k] \in 0 .. t /\ rank[k] \in 0 .. m
                              /\ from2[k] = from[k] /\ rank2[k] = rank[k]
    <2> SUFFICES ASSUME NEW k \in 1 .. n + 1
                 PROVE  /\ from[k] \in 0 .. t /\ rank[k] \in 0 .. m
                        /\ from2[k] = from[k] /\ rank2[k] = rank[k]
      OBVIOUS
    <2>1. k \in 1 .. n + 2 /\ k # n + 2
      OBVIOUS
    <2>2. from2[k] = from[k] /\ rank2[k] = rank[k]
      BY <1>4, <1>5, <2>1
    <2>3. k \in Place
      BY <1>3
    <2>4. from[k] \in 0 .. t /\ rank[k] \in 0 .. m
      BY <1>1, <2>3
    <2> QED BY <2>2, <2>4
  <1>7. from2[n + 2] = t + p /\ rank2[n + 2] = m + r
    BY <1>4, <1>5
  <1>8. from2 \in [Place' -> 0 .. Len(stream')] /\ rank2 \in [Place' -> 0 .. Len(due')]
    <2>1. \A k \in 1 .. n + 2 : from2[k] \in 0 .. t + p /\ rank2[k] \in 0 .. m + r
      <3> SUFFICES ASSUME NEW k \in 1 .. n + 2
                   PROVE  from2[k] \in 0 .. t + p /\ rank2[k] \in 0 .. m + r
        OBVIOUS
      <3>1. CASE k = n + 2
        BY <1>7, <3>1
      <3>2. CASE k # n + 2
        <4>1. k \in 1 .. n + 1
          BY <3>2
        <4>2. PICK a \in 0 .. t, b \in 0 .. m : a = from2[k] /\ b = rank2[k]
          BY <1>6, <4>1
        <4>3. a \in 0 .. t + p /\ b \in 0 .. m + r
          OBVIOUS
        <4> QED BY <4>2, <4>3
      <3> QED BY <3>1, <3>2
    <2> QED BY <1>2, <1>3, <1>4, <1>5, <2>1
  <1>9. /\ from[1] = 0 /\ from[n + 1] = t /\ rank[1] = 0 /\ rank[n + 1] = m
        /\ \A k \in 1 .. n :
             /\ from[k + 1] = from[k] + PackedLen(packets[k])
             /\ \A j \in 1 .. PackedLen(packets[k]) :
                  stream[from[k] + j] = Pack(packets[k])[j]
             /\ rank[k + 1] = rank[k] + (IF TooLong(packets[k]) THEN 0 ELSE 1)
             /\ ~TooLong(packets[k]) => due[rank[k] + 1] = Body(packets[k])
    BY <1>1 DEF Layout
  <1>10. ASSUME NEW k \in 1 .. n + 1
         PROVE  /\ from2[k + 1] = from2[k] + PackedLen(packets'[k])
                /\ \A j \in 1 .. PackedLen(packets'[k]) :
                     stream'[from2[k] + j] = Pack(packets'[k])[j]
                /\ rank2[k + 1] = rank2[k] + (IF TooLong(packets'[k]) THEN 0 ELSE 1)
                /\ ~TooLong(packets'[k]) => due'[rank2[k] + 1] = Body(packets'[k])
    <2>1. CASE k = n + 1
      <3>1. packets'[k] = f /\ from2[k] = t /\ rank2[k] = m /\ k + 1 = n + 2
        BY <1>2, <1>6, <1>9, <2>1
      <3> QED BY <1>1, <1>2, <1>7, <3>1
    <2>2. CASE k # n + 1
      <3>1. k \in 1 .. n /\ k + 1 \in 1 .. n + 1
        BY <2>2
      <3>2. PICK g : g = packets[k]
        OBVIOUS
      <3>3. packets'[k] = g
        BY <1>2, <3>1, <3>2
      <3>4. /\ from2[k] = from[k] /\ from2[k + 1] = from[k + 1]
            /\ rank2[k] = rank[k] /\ rank2[k + 1] = rank[k + 1]
        BY <1>6, <3>1
      <3>5. PICK a \in 0 .. t, b \in 0 .. t, c \in 0 .. m, d \in 0 .. m :
              a = from[k] /\ b = from[k + 1] /\ c = rank[k] /\ d = rank[k + 1]
        BY <1>6, <3>1
      <3>6. /\ b = a + PackedLen(g)
            /\ \A j \in 1 .. PackedLen(g) : stream[a + j] = Pack(g)[j]
            /\ d = c + (IF TooLong(g) THEN 0 ELSE 1)
            /\ ~TooLong(g) => due[c + 1] = Body(g)
        BY <1>9, <3>1, <3>2, <3>5
      <3>7. PackedLen(g) \in Nat
        <4>1. g \in Seq(Byte)
          BY <1>1, <3>1, <3>2, ElementOfSeq DEF SplitterType
        <4> QED BY <4>1, BytesAreNats, SplitterAssumption DEF PackedLen
      <3>8. ASSUME NEW j \in 1 .. PackedLen(g) PROVE stream'[a + j] = Pack(g)[j]
        <4>1. a + j \in 1 .. t
          BY <3>6, <3>7
        <4> QED BY <1>2, <3>6, <4>1
      <3>9. ~TooLong(g) => due'[c + 1] = Body(g)
        <4> SUFFICES ASSUME ~TooLong(g) PROVE due'[c + 1] = Body(g)
          OBVIOUS
        <4>1. c + 1 \in 1 .. m
          BY <3>6
        <4> QED BY <1>2, <3>6, <4>1
      <3> QED BY <3>3, <3>4, <3>5, <3>6, <3>8, <3>9
    <2> QED BY <2>1, <2>2
  <1>11. Layout(from2, rank2)'
    <2>1. from2[1] = 0 /\ rank2[1] = 0
      <3>1. 1 \in 1 .. n + 1
        OBVIOUS
      <3> QED BY <1>6, <1>9, <3>1
    <2>2. /\ from2[Len(packets') + 1] = Len(stream')
          /\ rank2[Len(packets') + 1] = Len(due')
      <3>1. Len(packets') + 1 = n + 2
        BY <1>2
      <3> QED BY <1>2, <1>7, <3>1
    <2> QED BY <1>2, <1>10, <2>1, <2>2 DEF Layout
  <1>12. Cursor(from2, rank2, cur)'
    <2>1. /\ UNCHANGED <<read, DataBuffer, haderFound, PacketSize, StateNow, busy, out>>
      BY DEF SendPacket, server
    <2>2. Base' = Base
      BY <2>1 DEF Base
    <2>3. cur \in 1 .. n + 1 /\ from2[cur] = from[cur] /\ rank2[cur] = rank[cur]
      BY <1>3, <1>6
    <2>4. cur > 1 => from2[cur - 1] = from[cur - 1] /\ packets'[cur - 1] = packets[cur - 1]
      <3> SUFFICES ASSUME cur > 1
                   PROVE  from2[cur - 1] = from[cur - 1] /\ packets'[cur - 1] = packets[cur - 1]
        OBVIOUS
      <3>1. cur - 1 \in 1 .. n /\ cur - 1 \in 1 .. n + 1
        BY <2>3
      <3> QED BY <1>2, <1>6, <3>1
    <2>5. StateNow # 0 => cur <= n /\ packets'[cur] = packets[cur]
      <3> SUFFICES ASSUME StateNow # 0 PROVE cur <= n /\ packets'[cur] = packets[cur]
        OBVIOUS
      <3>1. cur <= n
        BY <1>1 DEF Cursor
      <3>2. cur \in 1 .. n
        BY <2>3, <3>1
      <3> QED BY <1>2, <3>1, <3>2
    <2>6. Base < from[cur] => cur > 1 /\ TooLong(packets[cur - 1]) /\ from[cur - 1] < Base
      BY DEF Cursor
    <2>7. Base' < from2[cur] =>
            cur > 1 /\ TooLong(packets'[cur - 1]) /\ from2[cur - 1] < Base'
      BY <2>2, <2>3, <2>4, <2>6
    <2>8. StateNow' # 0 => /\ cur <= Len(packets')
                           /\ haderFound' = from2[cur] + 5 - Base'
                           /\ haderFound' <= Len(DataBuffer')
      BY <1>2, <2>1, <2>2, <2>3, <2>5 DEF Cursor
    <2>9. StateNow' = 2 => /\ ~TooLong(packets'[cur])
                           /\ PacketSize' = Len(packets'[cur]) + Overhead
      BY <2>1, <2>5 DEF Cursor
    <2>10. Len(out') = rank2[cur] /\ Base' <= from2[cur]
      BY <2>1, <2>2, <2>3 DEF Cursor
    <2> QED BY <2>7, <2>8, <2>9, <2>10 DEF Cursor
  <1>13. cur \in Place'
    BY <1>3
  <1> QED BY <1>8, <1>11, <1>12, <1>13 DEF Placed

LEMMA SendStep ==
  ASSUME SplitterInv, NEW f \in Seq(Byte), SendPacket(f)
  PROVE  SplitterInv'
  <1>1. /\ SplitterType
        /\ UNCHANGED <<read, DataBuffer, haderFound, PacketSize, StateNow, busy, out>>
    BY DEF SplitterInv, SendPacket, server
  <1>2. Base' = Base /\ Rest' = Rest
    BY <1>1 DEF Base, Rest
  <1>3. SplitterType'
    <2>1. PICK t \in Nat, p \in Nat, b \in Nat, l \in Nat :
            /\ t = Len(stream) /\ p = PackedLen(f) /\ b = Base /\ l = Len(DataBuffer)
            /\ read = b + l /\ read <= t /\ read \in Nat
      <3>1. /\ Len(stream) \in Nat /\ Base \in Nat /\ Len(DataBuffer) \in Nat /\ read \in Nat
            /\ read = Base + Len(DataBuffer) /\ read <= Len(stream)
        BY <1>1, BufferFacts
      <3>2. PackedLen(f) \in Nat
        BY <1>1, SendFacts
      <3> QED BY <3>1, <3>2
    <2>2. Len(stream') = t + p /\ \A j \in 1 .. t : stream'[j] = stream[j]
      BY <1>1, <2>1, SendFacts
    <2>3. read' \in 0 .. Len(stream')
      BY <1>1, <2>1, <2>2
    <2>4. ASSUME NEW k \in 1 .. l PROVE DataBuffer[k] = stream'[b + k]
      <3>1. b + k \in 1 .. t
        BY <2>1
      <3> QED BY <1>1, <2>1, <2>2, <3>1 DEF SplitterType
    <2>5. packets' \in Seq(Seq(Byte)) /\ due' \in Seq(Seq(Nat)) /\ stream' \in Seq(Nat)
      BY <1>1, SendFacts
    <2> QED BY <1>1, <1>2, <2>1, <2>3, <2>4, <2>5 DEF SplitterType
  <1>4. Asleep'
    BY <1>1, <1>2 DEF SplitterInv, Asleep
  <1>5. ASSUME AllHarmless' PROVE OutDue' /\ Placed'
    <2>1. AllHarmless
      <3>1. DOMAIN packets = 1 .. Len(packets) /\ Len(packets) \in Nat
        BY <1>1, LenProperties DEF SplitterType
      <3>2. DOMAIN packets' = 1 .. Len(packets) + 1
        BY <1>1, SendFacts, LenProperties
      <3>3. \A k \in 1 .. Len(packets) : packets'[k] = packets[k]
        BY <1>1, SendFacts
      <3>4. 1 .. Len(packets) \subseteq 1 .. Len(packets) + 1
        BY <3>1
      <3>5. \A k \in DOMAIN packets' : Harmless(packets'[k])
        BY <1>5 DEF AllHarmless, Harmless, TooLong, HeaderEnds
      <3> QED BY <3>1, <3>2, <3>3, <3>4, <3>5 DEF AllHarmless
    <2>2. OutDue /\ Placed
      BY <2>1 DEF SplitterInv
    <2>3. PICK from \in [Place -> 0 .. Len(stream)], rank \in [Place -> 0 .. Len(due)],
               cur \in Place : Layout(from, rank) /\ Cursor(from, rank, cur)
      BY <2>2 DEF Placed
    <2>4. Placed'
      BY <1>1, <2>3, SendPlaced
    <2>5. OutDue'
      <3>1. PICK m \in Nat, o \in Nat, r \in 0 .. 1 :
              m = Len(due) /\ o = Len(out) /\ Len(due') = m + r
        <4>1. Len(due) \in Nat /\ Len(out) \in Nat
          BY <1>1, BufferFacts
        <4>2. Len(due') = Len(due) + (IF TooLong(f) THEN 0 ELSE 1)
          BY <1>1, SendFacts
        <4>3. (IF TooLong(f) THEN 0 ELSE 1) \in 0 .. 1
          OBVIOUS
        <4> QED BY <4>1, <4>2, <4>3
      <3>2. \A k \in 1 .. m : due'[k] = due[k]
        BY <1>1, <3>1, SendFacts
      <3>3. o <= m /\ \A k \in 1 .. o : out[k] = due[k]
        BY <2>2, <3>1 DEF OutDue
      <3>4. ASSUME NEW k \in 1 .. o PROVE out[k] = due'[k]
        <4>1. k \in 1 .. m
          BY <3>3
        <4> QED BY <3>2, <3>3, <4>1
      <3>5. o <= m + r
        BY <3>3
      <3> QED BY <1>1, <3>1, <3>4, <3>5 DEF OutDue
    <2> QED BY <2>4, <2>5
  <1> QED BY <1>3, <1>4, <1>5 DEF SplitterInv

-----------------------------------------------------------------------------
(* Both halves together.                                                   *)

LEMMA SplitterStarts ==
  ASSUME SplitterInit
  PROVE  SplitterInv
  <1>1. /\ packets = <<>> /\ due = <<>> /\ stream = <<>> /\ read = 0 /\ DataBuffer = <<>>
        /\ haderFound = 0 /\ PacketSize = 0 /\ StateNow = 0 /\ busy = FALSE /\ out = <<>>
    BY DEF SplitterInit
  <1>2. /\ <<>> \in Seq(Nat) /\ <<>> \in Seq(Seq(Nat)) /\ <<>> \in Seq(Seq(Byte))
        /\ Len(<<>>) = 0
    BY EmptyFacts
  <1>3. Len(DataBuffer) = 0 /\ Len(stream) = 0 /\ Base = 0
    <2>1. Len(DataBuffer) = 0 /\ Len(stream) = 0 /\ read = 0
      BY <1>1, <1>2
    <2> QED BY <2>1 DEF Base
  <1>4. SplitterType
    <2>1. /\ packets \in Seq(Seq(Byte)) /\ due \in Seq(Seq(Nat)) /\ stream \in Seq(Nat)
          /\ DataBuffer \in Seq(Nat) /\ out \in Seq(Seq(Nat))
      BY <1>1, <1>2
    <2>2. /\ read \in 0 .. Len(stream) /\ Len(DataBuffer) <= read
          /\ haderFound \in Nat /\ PacketSize \in Nat /\ StateNow \in 0 .. 2
      <3>1. read = 0 /\ haderFound = 0 /\ PacketSize = 0 /\ StateNow = 0
        BY <1>1
      <3> QED BY <1>3, <3>1
    <2>3. busy \in BOOLEAN
      BY <1>1
    <2>4. \A k \in 1 .. Len(DataBuffer) : DataBuffer[k] = stream[Base + k]
      BY <1>3
    <2> QED BY <2>1, <2>2, <2>3, <2>4 DEF SplitterType
  <1>5. Asleep
    BY <1>1, <1>2 DEF Asleep
  <1>6. OutDue
    BY <1>1, <1>2 DEF OutDue
  <1>7. PICK from : from = [k \in Place |-> 0]
    OBVIOUS
  <1>8. Place = {1}
    BY <1>1, <1>2 DEF Place
  <1>9. from \in [Place -> 0 .. Len(stream)] /\ from \in [Place -> 0 .. Len(due)] /\ from[1] = 0
    BY <1>1, <1>2, <1>7, <1>8
  <1>10. Layout(from, from)
    BY <1>1, <1>2, <1>9 DEF Layout
  <1>11. Cursor(from, from, 1)
    BY <1>1, <1>2, <1>3, <1>9 DEF Cursor
  <1>12. Placed
    BY <1>8, <1>9, <1>10, <1>11 DEF Placed
  <1> QED BY <1>4, <1>5, <1>6, <1>12 DEF SplitterInv

LEMMA SplitterSteps ==
  ASSUME SplitterInv, SplitterNext
  PROVE  SplitterInv'
  BY NewStreamStep, FindHeaderStep, NoHeaderStep, ReadSizeStep, TakePacketStep, WaitStep
     DEF SplitterNext

LEMMA SplitterStill ==
  ASSUME SplitterInv, UNCHANGED splitterVars
  PROVE  SplitterInv'
  <1>1. /\ SplitterType
        /\ UNCHANGED <<packets, due, stream, read, DataBuffer, haderFound, PacketSize,
                       StateNow, busy, out>>
    BY DEF SplitterInv, splitterVars, server
  <1>2. Base' = Base /\ Rest' = Rest
    BY <1>1 DEF Base, Rest
  <1>3. SplitterType'
    BY <1>1, <1>2 DEF SplitterType
  <1>4. Asleep'
    BY <1>1, <1>2 DEF SplitterInv, Asleep
  <1>5. ASSUME AllHarmless, OutDue,
               NEW from \in [Place -> 0 .. Len(stream)],
               NEW rank \in [Place -> 0 .. Len(due)],
               NEW cur \in Place, Layout(from, rank), Cursor(from, rank, cur)
        PROVE  OutDue' /\ Cursor(from, rank, cur)'
    BY <1>1, <1>2, <1>5 DEF OutDue, Cursor
  <1> QED BY <1>1, <1>3, <1>4, <1>5, ServerStep

\* The decoder of the LilacSat-1 proxy adds one frame at most.
LEMMA LilacAdds ==
  ASSUME KissInv, KissNext
  PROVE  lilac'.out = lilac.out \/ lilac'.out = Append(lilac.out, lilac.DataBuf)
  <1> USE DEF KissInv
  <1>1. ASSUME NEW b \in Byte, Deliver(b)
        PROVE  lilac'.out = lilac.out \/ lilac'.out = Append(lilac.out, lilac.DataBuf)
    BY <1>1, DecoderAny DEF Deliver, KissType
  <1>2. FEND \in Byte /\ FESC \in Byte /\ TFEND \in Byte /\ TFESC \in Byte
    BY DEF FEND, FESC, TFEND, TFESC, Byte
  <1>3. CASE \E f \in Frames : Open(f)
    BY <1>1, <1>2, <1>3 DEF Open
  <1>4. CASE Plain
    <2>1. frame[at] \in Byte
      BY <1>4 DEF Plain, KissType
    <2> QED BY <1>1, <1>4, <2>1 DEF Plain
  <1>5. CASE Escape
    BY <1>1, <1>2, <1>5 DEF Escape
  <1>6. CASE Escaped
    BY <1>1, <1>2, <1>6 DEF Escaped
  <1>7. CASE Close
    BY <1>1, <1>2, <1>7 DEF Close
  <1>8. CASE Pad
    BY <1>1, <1>2, <1>8 DEF Pad
  <1>9. CASE Break \/ EndRead
    BY <1>9 DEF Break, EndRead, decoders
  <1> QED BY <1>3, <1>4, <1>5, <1>6, <1>7, <1>8, <1>9 DEF KissNext

LEMMA PathSteps ==
  ASSUME KissInv, SplitterInv, [Next]_vars
  PROVE  SplitterInv'
  <1>1. CASE handle_D_L2RA
    <2>1. CASE lilac'.out = lilac.out
      BY <1>1, <2>1, SplitterStill DEF handle_D_L2RA
    <2>2. CASE lilac'.out # lilac.out
      <3>1. lilac.out \in Seq(Seq(Byte)) /\ lilac.DataBuf \in Seq(Byte)
        BY DEF KissInv, KissType, DecoderType
      <3>2. lilac'.out = Append(lilac.out, lilac.DataBuf)
        BY <1>1, <2>2, LilacAdds DEF handle_D_L2RA
      <3>3. lilac'.out[Len(lilac'.out)] = lilac.DataBuf
        BY <3>1, <3>2, AppendFacts
      <3>4. SendPacket(lilac.DataBuf)
        BY <1>1, <2>2, <3>3 DEF handle_D_L2RA
      <3> QED BY <3>1, <3>4, SendStep
    <2> QED BY <2>1, <2>2
  <1>2. CASE Server
    BY <1>2, SplitterSteps DEF Server
  <1>3. CASE UNCHANGED vars
    BY <1>3, SplitterStill DEF vars
  <1> QED BY <1>1, <1>2, <1>3 DEF Next

LEMMA SplitterAlways == Spec => []SplitterInv
  <1>1. Init => SplitterInv
    BY SplitterStarts DEF Init
  <1>2. KissInv /\ SplitterInv /\ [Next]_vars => SplitterInv'
    BY PathSteps
  <1> QED BY <1>1, <1>2, KissAlways, PTL DEF Spec

\* When NewStream sleeps and has read all there is, the server is behind the last
\* packet.
LEMMA AllTaken ==
  ASSUME SplitterType, Asleep, ~busy, read = Len(stream),
         NEW from \in [Place -> 0 .. Len(stream)], NEW rank \in [Place -> 0 .. Len(due)],
         NEW cur \in Place, Layout(from, rank), Cursor(from, rank, cur)
  PROVE  Len(out) = Len(due)
  <1>1. PICK n \in Nat, t \in Nat, b \in Nat, l \in Nat, c \in Nat :
          /\ n = Len(packets) /\ t = Len(stream) /\ b = Base /\ l = Len(DataBuffer)
          /\ t = b + l /\ c = from[cur] /\ b <= c
    <2>1. /\ Len(packets) \in Nat /\ Len(stream) \in Nat /\ Base \in Nat
          /\ Len(DataBuffer) \in Nat /\ read = Base + Len(DataBuffer)
      BY BufferFacts
    <2>2. from[cur] \in Nat
      BY <2>1
    <2>3. Base <= from[cur]
      BY DEF Cursor
    <2> QED BY <2>1, <2>2, <2>3
  <1>2. cur \in 1 .. n + 1
    BY <1>1 DEF Place
  <1>3. cur = n + 1
    <2> SUFFICES ASSUME cur # n + 1 PROVE FALSE
      OBVIOUS
    <2>1. cur \in 1 .. n
      BY <1>2
    <2>2. PICK o \in Nat \ {0}, m \in Nat :
            o = Overhead /\ m = Len(packets[cur]) /\ c + 10 + o + m <= t
      <3>1. /\ from[cur + 1] = from[cur] + 10 + Overhead + Len(packets[cur])
            /\ from[cur + 1] <= Len(stream) /\ Len(packets[cur]) \in Nat
        BY <1>1, <2>1, PacketAt
      <3> QED BY <1>1, <3>1, SplitterAssumption
    <2>3. t = b + l /\ b <= c /\ o \in Nat /\ m \in Nat /\ c + 10 + o + m <= t
      BY <1>1, <2>2
    <2>4. CASE StateNow = 0
      <3>1. l <= 4
        BY <1>1, <2>4 DEF Asleep
      <3> QED BY <2>3, <3>1
    <2>5. CASE StateNow = 1
      <3>1. l - haderFound <= 5 /\ haderFound = c + 5 - b
        BY <1>1, <2>5 DEF Asleep, Rest, Cursor
      <3>2. l - (c + 5 - b) <= 5
        BY <3>1
      <3> QED BY <2>3, <3>2
    <2>6. CASE StateNow = 2
      <3>1. /\ l - haderFound - 5 < PacketSize /\ haderFound = c + 5 - b
            /\ PacketSize = m + o
        BY <1>1, <2>2, <2>6 DEF Asleep, Rest, Cursor
      <3>2. l - (c + 5 - b) - 5 < m + o
        BY <3>1
      <3> QED BY <2>3, <3>2
    <2> QED BY <2>4, <2>5, <2>6 DEF SplitterType
  <1>4. Len(out) = rank[cur] /\ rank[n + 1] = Len(due)
    BY <1>1 DEF Layout, Cursor
  <1> QED BY <1>3, <1>4

\* The server takes out of its stream the packets that were put in and are not too
\* long, however the stream is cut: NewStream together with the handler that packs
\* the frames, for all frames that came out of the decoder, all sizes of a body
\* and every limit of the server.
THEOREM ServerWhole == Spec => []PacketsWhole
  <1>1. SplitterInv => PacketsWhole
    <2> SUFFICES ASSUME SplitterInv, AllHarmless
                 PROVE  /\ out = SubSeq(due, 1, Len(out))
                        /\ ~busy /\ read = Len(stream) => out = due
      BY DEF PacketsWhole, AllHarmless
    <2>1. SplitterType /\ OutDue /\ Placed /\ Asleep
      BY DEF SplitterInv
    <2>2. PICK o \in Nat, m \in Nat : o = Len(out) /\ m = Len(due) /\ o <= m
      BY <2>1, BufferFacts DEF OutDue
    <2>3. \A k \in 1 .. o : out[k] = due[k]
      BY <2>1, <2>2 DEF OutDue
    <2>4. out \in Seq(Seq(Nat)) /\ due \in Seq(Seq(Nat))
      BY <2>1 DEF SplitterType
    <2>5. out = SubSeq(due, 1, Len(out))
      <3>1. PICK s : s = SubSeq(due, 1, Len(out))
        OBVIOUS
      <3>2. 0 \in 0 .. Len(due) /\ o \in 0 .. Len(due) /\ 0 + 1 = 1 /\ o - 0 = o
        BY <2>2
      <3>3. /\ SubSeq(due, 0 + 1, o) \in Seq(Seq(Nat)) /\ Len(SubSeq(due, 0 + 1, o)) = o - 0
            /\ \A j \in 1 .. o - 0 : SubSeq(due, 0 + 1, o)[j] = due[0 + j]
        BY <2>4, <3>2, SubSeqFacts
      <3>4. s \in Seq(Seq(Nat)) /\ Len(s) = o /\ \A j \in 1 .. o : s[j] = due[j]
        <4>1. SubSeq(due, 0 + 1, o) = s
          BY <2>2, <3>1
        <4>2. \A j \in 1 .. o : 0 + j = j
          OBVIOUS
        <4> QED BY <3>2, <3>3, <4>1, <4>2
      <3>5. Len(out) = Len(s) /\ \A j \in 1 .. Len(out) : out[j] = s[j]
        BY <2>2, <2>3, <3>4
      <3> QED BY <2>4, <3>1, <3>4, <3>5, SeqEqual
    <2>6. ASSUME ~busy, read = Len(stream) PROVE out = due
      <3>1. PICK from \in [Place -> 0 .. Len(stream)], rank \in [Place -> 0 .. Len(due)],
                 cur \in Place : Layout(from, rank) /\ Cursor(from, rank, cur)
        BY <2>1 DEF Placed
      <3>2. Len(out) = Len(due)
        BY <2>1, <2>6, <3>1, AllTaken
      <3>3. \A j \in 1 .. Len(out) : out[j] = due[j]
        BY <2>2, <2>3
      <3> QED BY <2>4, <3>2, <3>3, SeqEqual
    <2> QED BY <2>5, <2>6
  <1> QED BY <1>1, SplitterAlways, PTL
=============================================================================

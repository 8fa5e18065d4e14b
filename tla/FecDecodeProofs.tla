-------------------------- MODULE FecDecodeProofs ---------------------------
(***************************************************************************)
(* The receiver of FecDecode, for every sync word, byte and frame length,  *)
(* FIFO capacity and number of bytes that work() brings.                   *)
(***************************************************************************)
EXTENDS FecDecode, TLAPS

-----------------------------------------------------------------------------
\* The inductive invariant: rx_fifo is empty between calls of work(), holds
\* while it is filled no more than this call has written, and is not empty
\* when ccsds_pull starts on it.
QueueInv ==
  /\ pc = "wait" => rx_fifo = <<>>
  /\ pc = "rx" => n > 0 /\ Len(rx_fifo) <= i /\ (i > 0 => rx_fifo # <<>>)
  /\ pc = "pull" /\ mask_bit_in = 1 => rx_fifo # <<>>

IInv == TypeOK /\ QueueInv

-----------------------------------------------------------------------------
LEMMA TailType ==
  ASSUME NEW S, NEW s \in Seq(S), s # <<>>
  PROVE  /\ Head(s) \in S
         /\ Tail(s) \in Seq(S)
         /\ Len(Tail(s)) = Len(s) - 1
  OBVIOUS

\* The register stays as long as the sync word when a bit is shifted in.
LEMMA ShiftType ==
  ASSUME NEW r \in [DOMAIN SyncWord -> Bit], NEW b \in Bit
  PROVE  Append(Tail(r), b) \in [DOMAIN SyncWord -> Bit]
<1> DEFINE W == Len(SyncWord)
<1>1. W \in Nat /\ W > 0 /\ DOMAIN SyncWord = 1 .. W
  BY SizeAssumption
<1>2. r \in Seq(Bit) /\ Len(r) = W
  BY <1>1
<1>3. Tail(r) \in Seq(Bit) /\ Len(Tail(r)) = W - 1
  BY <1>1, <1>2
<1>4. /\ Append(Tail(r), b) \in Seq(Bit)
      /\ Len(Append(Tail(r), b)) = W
  BY <1>1, <1>3
<1>5. \A s \in Seq(Bit) : s \in [1 .. Len(s) -> Bit]
  OBVIOUS
<1>6. QED
  BY <1>1, <1>4, <1>5

\* The bit that a pass of ccsds_pull takes is one.
LEMMA BitType ==
  ASSUME TypeOK, TakeBit
  PROVE  /\ Mask \in 1 .. ByteBits
         /\ Current \in Byte
         /\ CurrentBit \in Bit
<1>1. Mask \in 1 .. ByteBits
  BY SizeAssumption DEF TypeOK, Mask
<1>2. Current \in Byte
  BY TailType DEF TypeOK, TakeBit, Current
<1>3. QED
  BY <1>1, <1>2 DEF CurrentBit, Byte

\* What a pass does to the FIFO and the mask.
LEMMA TakeType ==
  ASSUME TypeOK, TakeBit
  PROVE  /\ pc' \in {"wait", "rx", "pull"} /\ n' \in Nat /\ i' \in 0 .. n'
         /\ rx_fifo' \in Seq(Byte) /\ Len(rx_fifo') <= RxRoom
         /\ current_in' \in Byte
         /\ mask_bit_in' \in 1 .. ByteBits + 1 /\ mask_bit_in' # 1
<1>1. rx_fifo' \in Seq(Byte) /\ Len(rx_fifo') <= RxRoom
  BY TailType, SizeAssumption DEF TypeOK, TakeBit
<1>2. QED
  BY <1>1, BitType, SizeAssumption DEF TypeOK, TakeBit

\* The bit is put in its place.
LEMMA StoreType ==
  ASSUME TypeOK, TakeBit, syncing
  PROVE  Store \in [0 .. FrameBytes - 1 -> Byte]
<1>1. n_out \in 0 .. FrameBytes - 1
  BY SizeAssumption DEF TypeOK
<1>2. [buf_sync_out[n_out] EXCEPT ![mask_bit_out] = CurrentBit] \in Byte
  BY <1>1, BitType DEF TypeOK, Byte
<1>3. QED
  BY <1>1, <1>2 DEF TypeOK, Store

-----------------------------------------------------------------------------
LEMMA InitIInv == Init => IInv
<1> SUFFICES ASSUME Init PROVE IInv
  OBVIOUS
<1> USE SizeAssumption DEF Init
<1>1. EmptyRegister \in [DOMAIN SyncWord -> Bit]
  BY DEF EmptyRegister, Bit
<1>2. [k \in 1 .. ByteBits |-> 0] \in Byte
  BY DEF Byte, Bit
<1>3. TypeOK
  BY <1>1, <1>2 DEF TypeOK
<1>4. QED
  BY <1>3 DEF IInv, QueueInv

LEMMA TypeStep == TypeOK /\ [Next]_vars => TypeOK'
<1> SUFFICES ASSUME TypeOK, [Next]_vars PROVE TypeOK'
  OBVIOUS
<1> USE DEF input, loop, frame
<1>1. ASSUME NEW k \in WorkBytes, StartWork(k) PROVE TypeOK'
  BY <1>1, WorkAssumption DEF StartWork, TypeOK
<1>2. ASSUME NEW c \in Byte, RxWrite(c) PROVE TypeOK'
  <2>1. rx_fifo' \in Seq(Byte) /\ Len(rx_fifo') <= RxRoom
    BY <1>2, SizeAssumption DEF RxWrite, TypeOK
  <2>2. i' \in 0 .. n'
    BY <1>2 DEF RxWrite, TypeOK
  <2>3. QED
    BY <1>2, <2>1, <2>2 DEF RxWrite, TypeOK
<1>3. CASE StartPull
  BY <1>3, SizeAssumption DEF StartPull, TypeOK
<1>4. CASE Hunt
  <2>1. TakeBit
    BY <1>4 DEF Hunt
  <2>T. /\ pc' \in {"wait", "rx", "pull"} /\ n' \in Nat /\ i' \in 0 .. n'
        /\ rx_fifo' \in Seq(Byte) /\ Len(rx_fifo') <= RxRoom
        /\ current_in' \in Byte
        /\ mask_bit_in' \in 1 .. ByteBits + 1
    BY <2>1, TakeType
  <2>2. buffer_sync_det' \in [DOMAIN SyncWord -> Bit]
    <3>1. EmptyRegister \in [DOMAIN SyncWord -> Bit]
      BY DEF EmptyRegister, Bit
    <3>2. Shifted \in [DOMAIN SyncWord -> Bit]
      BY <2>1, BitType, ShiftType DEF Shifted, TypeOK
    <3>3. QED
      BY <1>4, <3>1, <3>2 DEF Hunt
  <2>3. /\ syncing' \in BOOLEAN
        /\ n_out' \in 0 .. FrameBytes
        /\ syncing' => n_out' < FrameBytes
        /\ mask_bit_out' \in 1 .. ByteBits
    <3>1. CASE WithinOne(Shifted)
      BY <1>4, <3>1, SizeAssumption DEF Hunt
    <3>2. CASE ~WithinOne(Shifted)
      BY <1>4, <3>2 DEF Hunt, TypeOK
    <3>3. QED
      BY <3>1, <3>2
  <2>4. UNCHANGED <<buf_sync_out, out>>
    BY <1>4 DEF Hunt
  <2>5. QED
    BY <2>2, <2>3, <2>4, <2>T DEF TypeOK
<1>5. CASE Collect
  <2>1. TakeBit /\ syncing
    BY <1>5 DEF Collect
  <2>T. /\ pc' \in {"wait", "rx", "pull"} /\ n' \in Nat /\ i' \in 0 .. n'
        /\ rx_fifo' \in Seq(Byte) /\ Len(rx_fifo') <= RxRoom
        /\ current_in' \in Byte
        /\ mask_bit_in' \in 1 .. ByteBits + 1
    BY <2>1, TakeType
  <2>2. /\ syncing' = syncing
        /\ n_out' \in 0 .. FrameBytes /\ n_out' < FrameBytes
        /\ mask_bit_out' \in 1 .. ByteBits
    BY <1>5, SizeAssumption DEF Collect, TypeOK
  <2>3. buf_sync_out' \in [0 .. FrameBytes - 1 -> Byte]
    BY <1>5, <2>1, StoreType DEF Collect
  <2>4. UNCHANGED <<buffer_sync_det, out>>
    BY <1>5 DEF Collect
  <2>5. QED
    BY <2>2, <2>3, <2>4, <2>T DEF TypeOK
<1>6. CASE Complete
  <2>1. TakeBit /\ syncing
    BY <1>6 DEF Complete
  <2>T. /\ pc' \in {"wait", "rx", "pull"} /\ n' \in Nat /\ i' \in 0 .. n'
        /\ rx_fifo' \in Seq(Byte) /\ Len(rx_fifo') <= RxRoom
        /\ current_in' \in Byte
        /\ mask_bit_in' \in 1 .. ByteBits + 1
    BY <2>1, TakeType
  <2>2. /\ syncing' = FALSE
        /\ n_out' \in 0 .. FrameBytes
        /\ mask_bit_out' \in 1 .. ByteBits
    BY <1>6, SizeAssumption DEF Complete, TypeOK
  <2>3. buf_sync_out' \in [0 .. FrameBytes - 1 -> Byte]
    BY <1>6, <2>1, StoreType DEF Complete
  <2>4. out' \in [0 .. FrameBytes - 1 -> Byte] \X BOOLEAN
    <3>1. PICK accepted \in BOOLEAN, pass_all \in BOOLEAN :
            out' = <<buf_sync_out', accepted \/ pass_all>>
      BY <1>6 DEF Complete
    <3>2. QED
      BY <2>3, <3>1
  <2>5. buffer_sync_det' \in [DOMAIN SyncWord -> Bit]
    BY <1>6 DEF Complete, TypeOK
  <2>6. QED
    BY <2>2, <2>3, <2>4, <2>5, <2>T DEF TypeOK
<1>7. CASE EndPull
  BY <1>7 DEF EndPull, TypeOK
<1>8. CASE UNCHANGED vars
  BY <1>8 DEF vars, TypeOK
<1>9. QED
  BY <1>1, <1>2, <1>3, <1>4, <1>5, <1>6, <1>7, <1>8 DEF Next, Thread

LEMMA QueueStep == IInv /\ [Next]_vars => QueueInv'
<1> SUFFICES ASSUME TypeOK, QueueInv, [Next]_vars PROVE QueueInv'
  BY DEF IInv
<1> USE SizeAssumption DEF QueueInv, input, loop, frame
<1>1. ASSUME NEW k \in WorkBytes, StartWork(k) PROVE QueueInv'
  BY <1>1, WorkAssumption DEF StartWork
<1>2. ASSUME NEW c \in Byte, RxWrite(c) PROVE QueueInv'
  <2>1. Len(rx_fifo') > 0 /\ Len(rx_fifo') <= i' /\ i' > 0
    <3>1. rx_fifo \in Seq(Byte) /\ i \in Nat /\ i' = i + 1
      BY <1>2 DEF RxWrite, TypeOK
    <3>2. CASE Len(rx_fifo) = RxRoom
      BY <1>2, <3>1, <3>2 DEF RxWrite
    <3>3. CASE Len(rx_fifo) # RxRoom
      <4>1. rx_fifo' = Append(rx_fifo, c) /\ Len(rx_fifo) <= i
        BY <1>2, <3>3 DEF RxWrite
      <4>2. Len(rx_fifo') = Len(rx_fifo) + 1
        BY <3>1, <4>1
      <4>3. QED
        BY <3>1, <4>1, <4>2
    <3>4. QED
      BY <3>2, <3>3
  <2>2. rx_fifo' # <<>>
    BY <2>1
  <2>3. pc' = "rx" /\ n' = n /\ n > 0
    BY <1>2 DEF RxWrite
  <2>4. QED
    BY <2>1, <2>2, <2>3
<1>3. CASE StartPull
  BY <1>3 DEF StartPull
<1>4. CASE Hunt \/ Collect \/ Complete
  <2>1. TakeBit
    BY <1>4 DEF Hunt, Collect, Complete
  <2>2. pc' = "pull" /\ mask_bit_in' # 1
    BY <2>1, TakeType DEF TakeBit
  <2>3. QED
    BY <2>2
<1>5. CASE EndPull
  BY <1>5 DEF EndPull, LoopGoesOn
<1>6. CASE UNCHANGED vars
  BY <1>6 DEF vars
<1>7. QED
  BY <1>1, <1>2, <1>3, <1>4, <1>5, <1>6 DEF Next, Thread

\* IInv holds in every state.
THEOREM Inductive == Spec => []IInv
<1>1. Init => IInv
  BY InitIInv
<1>2. IInv /\ [Next]_vars => IInv'
  BY TypeStep, QueueStep DEF IInv
<1>3. QED
  BY <1>1, <1>2, PTL DEF Spec

-----------------------------------------------------------------------------
\* The variables keep their types: in particular the next bit of a frame has
\* its place in buf_sync_out.
THEOREM TypeCorrect == Spec => []TypeOK
<1>1. IInv => TypeOK
  BY DEF IInv
<1>2. QED
  BY <1>1, Inductive, PTL

\* ccsds_pull does not pop an empty FIFO.
THEOREM PopSafe == Spec => []PopsAByte
<1>1. IInv => PopsAByte
  BY SizeAssumption DEF IInv, TypeOK, QueueInv, PopsAByte, LoopGoesOn, Mask
<1>2. QED
  BY <1>1, Inductive, PTL

\* A received byte is lost only if this call of work() brings more than
\* rx_fifo holds.
THEOREM NoOtherLoss == Spec => LossIsOverrun
<1>1. ASSUME IInv, [Next]_vars,
             pc = "rx", Len(rx_fifo') <= Len(rx_fifo), i' # i
      PROVE  n > RxRoom
  <2> USE <1>1 DEF input, loop, frame
  <2>1. PICK c \in Byte : RxWrite(c)
    BY DEF Next, Thread, StartWork, StartPull, Hunt, Collect, Complete,
           EndPull, TakeBit, vars
  <2>2. Len(rx_fifo) = RxRoom
    BY <2>1, SizeAssumption DEF IInv, TypeOK, RxWrite
  <2>3. QED
    BY <2>1, <2>2, SizeAssumption DEF IInv, TypeOK, QueueInv, RxWrite
<1>2. IInv /\ [Next]_vars
        => (pc = "rx" /\ Len(rx_fifo') <= Len(rx_fifo) /\ i' # i => n > RxRoom)
  BY <1>1
<1>3. QED
  BY <1>2, Inductive, PTL DEF Spec, LossIsOverrun

-----------------------------------------------------------------------------
(* The block implements the bit-serial Deframer.  First, the places of bits. *)

\* A bit of byte q, counted from 0, is found by division.
LEMMA Place ==
  ASSUME NEW q \in Nat, NEW r \in 1 .. ByteBits
  PROVE  /\ q * ByteBits \in Nat
         /\ (q * ByteBits + r - 1) \div ByteBits = q
         /\ ((q * ByteBits + r - 1) % ByteBits) + 1 = r
<1>1. q * ByteBits \in Nat
  BY SizeAssumption
<1>2. PICK j \in 0 .. ByteBits - 1 : j = r - 1
  BY SizeAssumption
<1>3. (q * ByteBits + j) \div ByteBits = q /\ (q * ByteBits + j) % ByteBits = j
  BY SizeAssumption
<1>4. q * ByteBits + r - 1 = q * ByteBits + j
  BY <1>1, <1>2
<1>5. QED
  BY <1>1, <1>2, <1>3, <1>4

\* Every bit is one of some byte.
LEMMA PlaceOf ==
  ASSUME NEW m \in Nat, NEW k \in 1 .. m * ByteBits
  PROVE  /\ (k - 1) \div ByteBits \in 0 .. m - 1
         /\ ((k - 1) % ByteBits) + 1 \in 1 .. ByteBits
         /\ k = ((k - 1) \div ByteBits) * ByteBits + ((k - 1) % ByteBits) + 1
<1>1. PICK j \in Nat : j = k - 1
  BY SizeAssumption
<1>2. /\ j \div ByteBits \in Nat /\ j % ByteBits \in 0 .. ByteBits - 1
      /\ j = (j \div ByteBits) * ByteBits + (j % ByteBits)
  BY SizeAssumption
<1>3. PICK q \in Nat : q = j \div ByteBits
  BY <1>2
<1>4. q * ByteBits < m * ByteBits
  BY <1>1, <1>2, <1>3, SizeAssumption
<1>5. q < m
  BY <1>4, SizeAssumption
<1>6. /\ j \div ByteBits \in 0 .. m - 1
      /\ (j % ByteBits) + 1 \in 1 .. ByteBits
      /\ k = (j \div ByteBits) * ByteBits + (j % ByteBits) + 1
  <2>1. q * ByteBits \in Nat
    BY SizeAssumption
  <2>2. k = q * ByteBits + (j % ByteBits) + 1
    BY <1>1, <1>2, <1>3, <2>1
  <2>3. QED
    BY <1>2, <1>3, <1>5, <2>2, SizeAssumption
<1>7. QED
  BY <1>1, <1>6

LEMMA ByteAndBit ==
  ASSUME NEW m \in Nat, NEW k \in 1 .. m * ByteBits
  PROVE  \E q \in 0 .. m - 1, r \in 1 .. ByteBits : k = q * ByteBits + r
<1>1. PICK q \in 0 .. m - 1, r \in 1 .. ByteBits :
        q = (k - 1) \div ByteBits /\ r = ((k - 1) % ByteBits) + 1
  BY PlaceOf
<1>2. k = q * ByteBits + ((k - 1) % ByteBits) + 1
  BY <1>1, PlaceOf
<1>3. PICK x \in Nat : x = q * ByteBits
  BY SizeAssumption
<1>4. PICK j \in Nat : j = (k - 1) % ByteBits
  <2>1. r - 1 \in Nat /\ (k - 1) % ByteBits \in Int
    BY SizeAssumption
  <2>2. (k - 1) % ByteBits = r - 1
    BY <1>1, <2>1
  <2>3. QED
    BY <2>1, <2>2
<1>5. k = x + r
  BY <1>1, <1>2, <1>3, <1>4
<1>6. QED
  BY <1>3, <1>5

LEMMA Product ==
  ASSUME NEW a \in Nat
  PROVE  a * ByteBits \in Nat /\ (a + 1) * ByteBits = a * ByteBits + ByteBits
<1>1. a * ByteBits \in Nat
  BY SizeAssumption
<1>2. (a + 1) * ByteBits = a * ByteBits + ByteBits
  BY SizeAssumption
<1>3. QED
  BY <1>1, <1>2

LEMMA Products ==
  ASSUME NEW a \in Nat, NEW b \in Nat
  PROVE  /\ a * ByteBits \in Nat
         /\ (a + 1) * ByteBits = a * ByteBits + ByteBits
         /\ a <= b => a * ByteBits <= b * ByteBits
         /\ a < b => a * ByteBits + ByteBits <= b * ByteBits
         /\ a * ByteBits = b * ByteBits => a = b
<1>1. a * ByteBits \in Nat /\ b * ByteBits \in Nat
  BY SizeAssumption
<1>2. (a + 1) * ByteBits = a * ByteBits + ByteBits
  BY SizeAssumption
<1>3. a <= b => a * ByteBits <= b * ByteBits
  BY SizeAssumption
<1>4. a < b => a * ByteBits + ByteBits <= b * ByteBits
  BY SizeAssumption
<1>5. b < a => b * ByteBits + ByteBits <= a * ByteBits
  BY SizeAssumption
<1>6. QED
  BY <1>1, <1>2, <1>3, <1>4, <1>5, SizeAssumption

\* A byte is a sequence of ByteBits bits.
LEMMA ByteFacts ==
  ASSUME NEW c \in Byte
  PROVE  c \in Seq(Bit) /\ Len(c) = ByteBits
         /\ \A k \in 1 .. ByteBits : c[k] \in Bit
  BY SizeAssumption DEF Byte

LEMMA SameSequence ==
  ASSUME NEW S, NEW s \in Seq(S), NEW t \in Seq(S), Len(s) = Len(t),
         \A k \in 1 .. Len(s) : s[k] = t[k]
  PROVE  s = t
  OBVIOUS

\* The bits of a sequence of bytes.
LEMMA BitsFacts ==
  ASSUME NEW s \in Seq(Byte)
  PROVE  /\ Bits(s) \in Seq(Bit) /\ Len(Bits(s)) = Len(s) * ByteBits
         /\ Len(s) \in Nat
         /\ \A q \in 0 .. Len(s) - 1, r \in 1 .. ByteBits :
              /\ q * ByteBits + r \in 1 .. Len(s) * ByteBits
              /\ Bits(s)[q * ByteBits + r] = s[q + 1][r]
<1>1. PICK L \in Nat : L = Len(s)
  OBVIOUS
<1>2. PICK T \in Nat : T = Len(s) * ByteBits
  BY <1>1, Products
<1>3. ASSUME NEW k \in 1 .. T
      PROVE  s[((k - 1) \div ByteBits) + 1][((k - 1) % ByteBits) + 1] \in Bit
  <2>1. /\ (k - 1) \div ByteBits \in 0 .. L - 1
        /\ ((k - 1) % ByteBits) + 1 \in 1 .. ByteBits
    BY <1>1, <1>2, PlaceOf
  <2>2. ((k - 1) \div ByteBits) + 1 \in 1 .. Len(s)
    BY <1>1, <2>1
  <2>3. s[((k - 1) \div ByteBits) + 1] \in Byte
    BY <2>2
  <2>4. QED
    BY <2>1, <2>3 DEF Byte
<1>4. Bits(s) \in [1 .. T -> Bit]
  BY <1>2, <1>3 DEF Bits
<1>5. Bits(s) \in Seq(Bit) /\ Len(Bits(s)) = T
  BY <1>4
<1>6. ASSUME NEW q \in 0 .. Len(s) - 1, NEW r \in 1 .. ByteBits
      PROVE  /\ q * ByteBits + r \in 1 .. Len(s) * ByteBits
             /\ Bits(s)[q * ByteBits + r] = s[q + 1][r]
  <2>1. q \in Nat /\ q < L
    BY <1>1
  <2>2. q * ByteBits \in Nat /\ q * ByteBits + ByteBits <= T
    BY <1>1, <1>2, <2>1, Products
  <2>3. q * ByteBits + r \in 1 .. Len(s) * ByteBits
    BY <1>2, <2>2, SizeAssumption
  <2>4. PICK k \in 1 .. Len(s) * ByteBits : k = q * ByteBits + r
    BY <2>3
  <2>5. (k - 1) \div ByteBits = q /\ ((k - 1) % ByteBits) + 1 = r
    <3>1. k - 1 = q * ByteBits + r - 1
      BY <2>2, <2>4
    <3>2. QED
      BY <2>1, <3>1, Place
  <2>6. Bits(s)[k] = s[q + 1][r]
    BY <2>5 DEF Bits
  <2>7. QED
    BY <2>3, <2>4, <2>6
<1>7. QED
  BY <1>1, <1>2, <1>5, <1>6

LEMMA BitsEmpty == Bits(<<>>) = <<>>
<1>1. <<>> \in Seq(Byte) /\ Len(<<>>) = 0
  OBVIOUS
<1>2. Bits(<<>>) \in Seq(Bit) /\ Len(Bits(<<>>)) = 0 * ByteBits
  BY <1>1, BitsFacts
<1>3. 0 * ByteBits = 0
  BY SizeAssumption
<1>4. QED
  BY <1>2, <1>3

\* A byte that is written puts its bits behind those that wait.
LEMMA BitsAppend ==
  ASSUME NEW s \in Seq(Byte), NEW c \in Byte
  PROVE  Bits(Append(s, c)) = Bits(s) \o c
<1> DEFINE t == Append(s, c)
<1>1. PICK L \in Nat : L = Len(s)
  OBVIOUS
<1>2. /\ t \in Seq(Byte) /\ Len(t) = L + 1 /\ t[L + 1] = c
      /\ \A k \in 1 .. L : t[k] = s[k]
  BY <1>1
<1> HIDE DEF t
<1>3. PICK T \in Nat : T = L * ByteBits
  BY Product
<1>4. (L + 1) * ByteBits = T + ByteBits
  BY <1>3, Product
<1>5. /\ Bits(t) \in Seq(Bit) /\ Len(Bits(t)) = T + ByteBits
      /\ \A q \in 0 .. L, r \in 1 .. ByteBits :
           Bits(t)[q * ByteBits + r] = t[q + 1][r]
  BY <1>1, <1>2, <1>4, BitsFacts
<1>6. /\ Bits(s) \in Seq(Bit) /\ Len(Bits(s)) = T
      /\ \A q \in 0 .. L - 1, r \in 1 .. ByteBits :
           /\ q * ByteBits + r \in 1 .. T
           /\ Bits(s)[q * ByteBits + r] = s[q + 1][r]
  BY <1>1, <1>3, BitsFacts
<1>7. c \in Seq(Bit) /\ Len(c) = ByteBits /\ ByteBits \in Nat
  BY ByteFacts, SizeAssumption
<1>8. /\ Bits(s) \o c \in Seq(Bit) /\ Len(Bits(s) \o c) = T + ByteBits
      /\ \A k \in 1 .. T : (Bits(s) \o c)[k] = Bits(s)[k]
      /\ \A k \in 1 .. ByteBits : (Bits(s) \o c)[T + k] = c[k]
  <2>1. Bits(s) \in Seq(Bit) /\ Len(Bits(s)) = T
    BY <1>6
  <2>2. QED
    BY <1>7, <2>1
<1>9. ASSUME NEW k \in 1 .. T + ByteBits
      PROVE  Bits(t)[k] = (Bits(s) \o c)[k]
  <2>1. k \in 1 .. (L + 1) * ByteBits
    BY <1>4
  <2>2. PICK q \in 0 .. L, r \in 1 .. ByteBits : k = q * ByteBits + r
    <3>1. L + 1 \in Nat /\ L + 1 - 1 = L
      OBVIOUS
    <3>2. \E q \in 0 .. L + 1 - 1, r \in 1 .. ByteBits : k = q * ByteBits + r
      BY <2>1, <3>1, ByteAndBit
    <3>3. QED
      BY <3>1, <3>2
  <2>3. Bits(t)[k] = t[q + 1][r]
    BY <1>5, <2>2
  <2>4. CASE q = L
    <3>1. k = T + r
      BY <1>3, <2>2, <2>4
    <3>2. t[q + 1] = c
      BY <1>2, <2>4
    <3>3. (Bits(s) \o c)[T + r] = c[r]
      BY <1>8
    <3>4. (Bits(s) \o c)[k] = c[r]
      BY <3>1, <3>3
    <3>5. Bits(t)[k] = c[r]
      BY <2>3, <3>2
    <3>6. QED
      BY <3>4, <3>5
  <2>5. CASE q < L
    <3>1. q \in 0 .. L - 1 /\ q + 1 \in 1 .. L
      BY <2>5
    <3>2. k \in 1 .. T /\ Bits(s)[k] = s[q + 1][r]
      BY <1>6, <2>2, <3>1
    <3>3. t[q + 1] = s[q + 1]
      BY <1>2, <3>1
    <3>4. QED
      BY <1>8, <2>3, <3>2, <3>3
  <2>6. q = L \/ q < L
    BY <2>2
  <2>7. QED
    BY <2>4, <2>5, <2>6
<1>10. Bits(t) = Bits(s) \o c
  BY <1>5, <1>8, <1>9, SameSequence
<1>11. QED
  BY <1>10 DEF t

\* The bits of the first byte come first.
LEMMA BitsHead ==
  ASSUME NEW s \in Seq(Byte), s # <<>>
  PROVE  Bits(s) = Head(s) \o Bits(Tail(s))
<1> DEFINE c == Head(s)
           t == Tail(s)
<1>1. PICK L \in Nat : L + 1 = Len(s)
  <2>1. Len(s) \in Nat /\ Len(s) # 0
    OBVIOUS
  <2>2. Len(s) - 1 \in Nat /\ Len(s) - 1 + 1 = Len(s)
    BY <2>1
  <2>3. QED
    BY <2>2
<1>2. /\ c \in Byte /\ c = s[1] /\ t \in Seq(Byte) /\ Len(t) = L
      /\ \A k \in 1 .. L : t[k] = s[k + 1]
  BY <1>1
<1> HIDE DEF c, t
<1>3. PICK T \in Nat : T = L * ByteBits
  BY Product
<1>4. (L + 1) * ByteBits = T + ByteBits
  BY <1>3, Product
<1>5. /\ Bits(s) \in Seq(Bit) /\ Len(Bits(s)) = T + ByteBits
      /\ \A q \in 0 .. L, r \in 1 .. ByteBits :
           Bits(s)[q * ByteBits + r] = s[q + 1][r]
  <2>1. Len(s) - 1 = L
    BY <1>1
  <2>2. QED
    BY <1>1, <1>4, <2>1, BitsFacts
<1>6. /\ Bits(t) \in Seq(Bit) /\ Len(Bits(t)) = T
      /\ \A q \in 0 .. L - 1, r \in 1 .. ByteBits :
           /\ q * ByteBits + r \in 1 .. T
           /\ Bits(t)[q * ByteBits + r] = t[q + 1][r]
  BY <1>2, <1>3, BitsFacts
<1>7. c \in Seq(Bit) /\ Len(c) = ByteBits /\ ByteBits \in Nat
  BY <1>2, ByteFacts, SizeAssumption
<1>8. /\ c \o Bits(t) \in Seq(Bit) /\ Len(c \o Bits(t)) = ByteBits + T
      /\ \A k \in 1 .. ByteBits : (c \o Bits(t))[k] = c[k]
      /\ \A k \in 1 .. T : (c \o Bits(t))[ByteBits + k] = Bits(t)[k]
  <2>1. Bits(t) \in Seq(Bit) /\ Len(Bits(t)) = T
    BY <1>6
  <2>2. QED
    BY <1>7, <2>1
<1>9. ASSUME NEW k \in 1 .. T + ByteBits
      PROVE  Bits(s)[k] = (c \o Bits(t))[k]
  <2>1. k \in 1 .. (L + 1) * ByteBits
    BY <1>4
  <2>2. PICK q \in 0 .. L, r \in 1 .. ByteBits : k = q * ByteBits + r
    <3>1. L + 1 \in Nat /\ L + 1 - 1 = L
      OBVIOUS
    <3>2. \E q \in 0 .. L + 1 - 1, r \in 1 .. ByteBits : k = q * ByteBits + r
      BY <2>1, <3>1, ByteAndBit
    <3>3. QED
      BY <3>1, <3>2
  <2>3. Bits(s)[k] = s[q + 1][r]
    BY <1>5, <2>2
  <2>4. CASE q = 0
    <3>1. k = r
      BY <2>2, <2>4, SizeAssumption
    <3>2. s[q + 1] = c
      BY <1>2, <2>4
    <3>3. QED
      BY <1>7, <1>8, <2>3, <3>1, <3>2
  <2>5. CASE q > 0
    <3>1. PICK m \in 0 .. L - 1 : q = m + 1 /\ m + 1 \in 1 .. L
      <4>1. q - 1 \in 0 .. L - 1 /\ q = q - 1 + 1 /\ q - 1 + 1 \in 1 .. L
        BY <2>5
      <4>2. QED
        BY <4>1
    <3>2. q * ByteBits = m * ByteBits + ByteBits /\ m * ByteBits \in Nat
      <4>1. m \in Nat
        OBVIOUS
      <4>2. (m + 1) * ByteBits = m * ByteBits + ByteBits /\ m * ByteBits \in Nat
        BY <4>1, Product
      <4>3. QED
        BY <3>1, <4>2
    <3>3. PICK j \in 1 .. T : j = m * ByteBits + r
      BY <1>6, <3>1
    <3>4. k = ByteBits + j
      BY <2>2, <3>2, <3>3, SizeAssumption
    <3>5. Bits(t)[j] = s[q + 1][r]
      BY <1>2, <1>6, <3>1, <3>3
    <3>6. (c \o Bits(t))[ByteBits + j] = Bits(t)[j]
      BY <1>8
    <3>7. (c \o Bits(t))[k] = Bits(t)[j]
      BY <3>4, <3>6
    <3>8. QED
      BY <2>3, <3>5, <3>7
  <2>6. q = 0 \/ q > 0
    BY <2>2
  <2>7. QED
    BY <2>4, <2>5, <2>6
<1>10. Bits(s) = c \o Bits(t)
  <2>1. ByteBits + T = T + ByteBits
    BY SizeAssumption
  <2>2. QED
    BY <1>5, <1>8, <1>9, <2>1, SameSequence
<1>11. QED
  BY <1>10 DEF c, t

\* The bits from bit m of a byte on, with others behind them.
LEMMA FirstBit ==
  ASSUME NEW c \in Byte, NEW m \in 1 .. ByteBits, NEW t \in Seq(Bit)
  PROVE  LET s == SubSeq(c, m, ByteBits) \o t
         IN  /\ s # <<>> /\ Head(s) = c[m]
             /\ Tail(s) = SubSeq(c, m + 1, ByteBits) \o t
<1> DEFINE a == SubSeq(c, m, ByteBits)
           b == SubSeq(c, m + 1, ByteBits)
<1>1. c \in Seq(Bit) /\ Len(c) = ByteBits /\ ByteBits \in Nat
  BY ByteFacts, SizeAssumption
<1>2. /\ a \in Seq(Bit) /\ Len(a) = ByteBits - m + 1
      /\ \A k \in 1 .. ByteBits - m + 1 : a[k] = c[m + k - 1]
  BY <1>1
<1>3. /\ b \in Seq(Bit) /\ Len(b) = ByteBits - m
      /\ \A k \in 1 .. ByteBits - m : b[k] = c[m + k]
  BY <1>1
<1> HIDE DEF a, b
<1>l. PICK l \in Nat, v \in Nat : l = ByteBits - m /\ v = Len(t)
  <2>1. ByteBits - m \in Nat /\ Len(t) \in Nat
    BY <1>1
  <2>2. QED
    BY <2>1
<1>4. /\ a \o t \in Seq(Bit) /\ Len(a \o t) = l + 1 + v
      /\ \A k \in 1 .. l + 1 : (a \o t)[k] = a[k]
      /\ \A k \in 1 .. v : (a \o t)[l + 1 + k] = t[k]
  <2>1. a \in Seq(Bit) /\ Len(a) = l + 1
    BY <1>1, <1>2, <1>l
  <2>2. QED
    BY <2>1, <1>l
<1>5. /\ b \o t \in Seq(Bit) /\ Len(b \o t) = l + v
      /\ \A k \in 1 .. l : (b \o t)[k] = b[k]
      /\ \A k \in 1 .. v : (b \o t)[l + k] = t[k]
  <2>1. b \in Seq(Bit) /\ Len(b) = l
    BY <1>3, <1>l
  <2>2. QED
    BY <2>1, <1>l
<1>6. a \o t # <<>> /\ Head(a \o t) = (a \o t)[1]
  BY <1>4
<1>7. Head(a \o t) = c[m]
  <2>1. 1 \in 1 .. l + 1 /\ 1 \in 1 .. ByteBits - m + 1 /\ m + 1 - 1 = m
    BY <1>1, <1>l
  <2>2. QED
    BY <1>2, <1>4, <1>6, <2>1
<1>8. /\ Tail(a \o t) \in Seq(Bit) /\ Len(Tail(a \o t)) = l + v
      /\ \A k \in 1 .. l + v : Tail(a \o t)[k] = (a \o t)[k + 1]
  BY <1>4, <1>6
<1>9. ASSUME NEW k \in 1 .. l + v
      PROVE  Tail(a \o t)[k] = (b \o t)[k]
  <2>1. CASE k <= l
    <3>1. /\ k + 1 \in 1 .. l + 1 /\ k \in 1 .. l
          /\ k + 1 \in 1 .. ByteBits - m + 1 /\ k \in 1 .. ByteBits - m
          /\ m + (k + 1) - 1 = m + k
      BY <1>1, <1>l, <2>1
    <3>2. a[k + 1] = c[m + k] /\ b[k] = c[m + k]
      BY <1>2, <1>3, <3>1
    <3>3. (a \o t)[k + 1] = a[k + 1] /\ (b \o t)[k] = b[k]
      BY <1>4, <1>5, <3>1
    <3>4. QED
      BY <1>8, <3>2, <3>3
  <2>2. CASE k > l
    <3>1. PICK j \in 1 .. v : k = l + j /\ k + 1 = l + 1 + j
      <4>1. k - l \in 1 .. v /\ k = l + (k - l) /\ k + 1 = l + 1 + (k - l)
        BY <2>2
      <4>2. QED
        BY <4>1
    <3>2. (a \o t)[l + 1 + j] = t[j] /\ (b \o t)[l + j] = t[j]
      BY <1>4, <1>5
    <3>3. QED
      BY <1>8, <3>1, <3>2
  <2>3. k <= l \/ k > l
    BY <1>l
  <2>4. QED
    BY <2>1, <2>2, <2>3
<1>10. Tail(a \o t) = b \o t
  BY <1>5, <1>8, <1>9, SameSequence
<1>11. QED
  BY <1>6, <1>7, <1>10 DEF a, b

LEMMA FirstBitsFacts ==
  ASSUME NEW buf \in [0 .. FrameBytes - 1 -> Byte],
         NEW len \in 0 .. FrameBytes * ByteBits
  PROVE  /\ FirstBits(buf, len) \in Seq(Bit) /\ Len(FirstBits(buf, len)) = len
         /\ \A k \in 1 .. len :
              /\ k \in 1 .. FrameBytes * ByteBits
              /\ FirstBits(buf, len)[k]
                   = buf[(k - 1) \div ByteBits][((k - 1) % ByteBits) + 1]
<1>1. FrameBytes \in Nat
  BY SizeAssumption
<1>2. PICK T \in Nat : T = FrameBytes * ByteBits
  BY <1>1, Product
<1>3. ASSUME NEW k \in 1 .. len
      PROVE  /\ k \in 1 .. T
             /\ buf[(k - 1) \div ByteBits][((k - 1) % ByteBits) + 1] \in Bit
  <2>1. k \in 1 .. T /\ k \in 1 .. FrameBytes * ByteBits
    BY <1>2
  <2>2. /\ (k - 1) \div ByteBits \in 0 .. FrameBytes - 1
        /\ ((k - 1) % ByteBits) + 1 \in 1 .. ByteBits
    BY <1>1, <2>1, PlaceOf
  <2>3. buf[(k - 1) \div ByteBits] \in Byte
    BY <2>2
  <2>4. QED
    BY <2>1, <2>2, <2>3 DEF Byte
<1>4. FirstBits(buf, len) \in [1 .. len -> Bit]
  BY <1>3 DEF FirstBits
<1>5. len \in Nat
  BY <1>2
<1>6. FirstBits(buf, len) \in Seq(Bit) /\ Len(FirstBits(buf, len)) = len
  BY <1>4, <1>5
<1>7. QED
  BY <1>2, <1>3, <1>6 DEF FirstBits

\* Bit r of byte q, stored behind the bits before it.
LEMMA FirstBitsStore ==
  ASSUME NEW buf \in [0 .. FrameBytes - 1 -> Byte],
         NEW q \in 0 .. FrameBytes - 1, NEW r \in 1 .. ByteBits, NEW b \in Bit
  PROVE  FirstBits([buf EXCEPT ![q][r] = b], q * ByteBits + r)
           = Append(FirstBits(buf, q * ByteBits + r - 1), b)
<1> DEFINE new == [buf EXCEPT ![q][r] = b]
<1>1. FrameBytes \in Nat \ {0} /\ ByteBits \in Nat \ {0} /\ q \in Nat
  BY SizeAssumption
<1>2. [buf[q] EXCEPT ![r] = b] \in Byte /\ buf[q] \in Byte
  BY DEF Byte
<1>3. /\ new \in [0 .. FrameBytes - 1 -> Byte]
      /\ new[q][r] = b
      /\ \A x \in 0 .. FrameBytes - 1, y \in 1 .. ByteBits :
           x # q \/ y # r => new[x][y] = buf[x][y]
  BY <1>2 DEF Byte
<1> HIDE DEF new
<1>4. PICK T \in Nat, Q \in Nat :
        /\ T = FrameBytes * ByteBits /\ Q = q * ByteBits
        /\ Q + ByteBits <= T
  <2>1. FrameBytes * ByteBits \in Nat /\ q * ByteBits \in Nat
    BY <1>1, Product
  <2>2. q * ByteBits + ByteBits <= FrameBytes * ByteBits
    BY <1>1, Products
  <2>3. QED
    BY <2>1, <2>2
<1>5. PICK e \in 1 .. T : e = Q + r /\ e - 1 \in 0 .. T /\ e - 1 \in Nat
  <2>1. Q + r \in 1 .. T /\ Q + r - 1 \in 0 .. T /\ Q + r - 1 \in Nat
    BY <1>1, <1>4
  <2>2. QED
    BY <2>1
<1>6. /\ FirstBits(new, e) \in Seq(Bit) /\ Len(FirstBits(new, e)) = e
      /\ \A k \in 1 .. e : FirstBits(new, e)[k]
                            = new[(k - 1) \div ByteBits][((k - 1) % ByteBits) + 1]
  <2>1. e \in 0 .. FrameBytes * ByteBits
    BY <1>4, <1>5
  <2>2. QED
    BY <1>3, <2>1, FirstBitsFacts
<1> DEFINE old == FirstBits(buf, e - 1)
<1>7. /\ old \in Seq(Bit) /\ Len(old) = e - 1
      /\ \A k \in 1 .. e - 1 : old[k]
                            = buf[(k - 1) \div ByteBits][((k - 1) % ByteBits) + 1]
  <2>1. e - 1 \in 0 .. FrameBytes * ByteBits
    BY <1>4, <1>5
  <2>2. QED
    BY <2>1, FirstBitsFacts
<1> HIDE DEF old
<1>8. /\ Append(old, b) \in Seq(Bit) /\ Len(Append(old, b)) = e
      /\ \A k \in 1 .. e - 1 : Append(old, b)[k] = old[k]
      /\ Append(old, b)[e] = b
  <2>1. Len(old) + 1 = e
    BY <1>5, <1>7
  <2>2. QED
    BY <1>7, <2>1
<1>9. ASSUME NEW k \in 1 .. e PROVE FirstBits(new, e)[k] = Append(old, b)[k]
  <2>1. k \in 1 .. FrameBytes * ByteBits
    BY <1>4, <1>5
  <2>2. /\ (k - 1) \div ByteBits \in 0 .. FrameBytes - 1
        /\ ((k - 1) % ByteBits) + 1 \in 1 .. ByteBits
        /\ k = ((k - 1) \div ByteBits) * ByteBits + ((k - 1) % ByteBits) + 1
    BY <1>1, <2>1, PlaceOf
  <2>3. CASE k = e
    <3>1. k - 1 = q * ByteBits + r - 1
      BY <1>4, <1>5, <2>3
    <3>2. (k - 1) \div ByteBits = q /\ ((k - 1) % ByteBits) + 1 = r
      BY <1>1, <3>1, Place
    <3>3. FirstBits(new, e)[k] = b
      BY <1>3, <1>6, <3>2
    <3>4. QED
      BY <1>8, <2>3, <3>3
  <2>4. CASE k # e
    <3>1. k \in 1 .. e - 1
      BY <1>5, <2>4
    <3>2. (k - 1) \div ByteBits # q \/ ((k - 1) % ByteBits) + 1 # r
      <4>1. SUFFICES ASSUME (k - 1) \div ByteBits = q,
                            ((k - 1) % ByteBits) + 1 = r
                     PROVE  FALSE
        OBVIOUS
      <4>2. PICK y \in Nat : y = (k - 1) % ByteBits
        BY <1>1
      <4>3. y + 1 = r /\ k = Q + y + 1
        BY <1>4, <2>2, <4>1, <4>2
      <4>4. QED
        BY <1>5, <2>4, <4>3
    <3>3. new[(k - 1) \div ByteBits][((k - 1) % ByteBits) + 1]
            = buf[(k - 1) \div ByteBits][((k - 1) % ByteBits) + 1]
      BY <1>3, <2>2, <3>2
    <3>4. QED
      BY <1>6, <1>7, <1>8, <3>1, <3>3
  <2>5. QED
    BY <2>3, <2>4
<1>10. FirstBits(new, e) = Append(old, b)
  BY <1>5, <1>6, <1>8, <1>9, SameSequence
<1>11. e = q * ByteBits + r /\ e - 1 = q * ByteBits + r - 1
  BY <1>1, <1>4, <1>5
<1>12. QED
  BY <1>10, <1>11 DEF new, old

-----------------------------------------------------------------------------
(* The refinement.                                                         *)

\* A pass of ccsds_pull takes the first of the bits that wait.
LEMMA BitTaken ==
  ASSUME TypeOK, TakeBit
  PROVE  /\ Waiting # <<>> /\ Head(Waiting) = CurrentBit
         /\ Waiting' = Tail(Waiting)
<1>1. ByteBits \in Nat \ {0}
  BY SizeAssumption
<1>2. Mask \in 1 .. ByteBits /\ Current \in Byte
  BY BitType
<1>3. rx_fifo \in Seq(Byte) /\ rx_fifo' \in Seq(Byte)
  BY TakeType DEF TypeOK
<1>4. Bits(rx_fifo) \in Seq(Bit) /\ Bits(rx_fifo') \in Seq(Bit)
  BY <1>3, BitsFacts
<1>5. Waiting = SubSeq(Current, Mask, ByteBits) \o Bits(rx_fifo')
  <2>1. CASE Mask = 1
    <3>1. rx_fifo # <<>> /\ rx_fifo' = Tail(rx_fifo) /\ Current = Head(rx_fifo)
      BY <2>1 DEF TakeBit, Current
    <3>2. Bits(rx_fifo) = Current \o Bits(rx_fifo')
      BY <1>3, <3>1, BitsHead
    <3>3. SubSeq(Current, 1, ByteBits) = Current
      <4>1. Current \in Seq(Bit) /\ Len(Current) = ByteBits
        BY <1>2, ByteFacts
      <4>2. QED
        BY <1>1, <4>1
    <3>4. Waiting = Bits(rx_fifo)
      <4>1. SubSeq(current_in, ByteBits + 1, ByteBits) = <<>>
        <5>1. current_in \in Seq(Bit) /\ Len(current_in) = ByteBits
          BY ByteFacts DEF TypeOK
        <5>2. QED
          BY <1>1, <5>1
      <4>2. <<>> \o Bits(rx_fifo) = Bits(rx_fifo)
        BY <1>4
      <4>3. mask_bit_in = 1 \/ mask_bit_in = ByteBits + 1
        BY <2>1 DEF Mask
      <4>4. QED
        BY <4>1, <4>2, <4>3 DEF Waiting
    <3>5. QED
      BY <2>1, <3>2, <3>3, <3>4
  <2>2. CASE Mask # 1
    <3>1. Mask = mask_bit_in /\ Current = current_in /\ rx_fifo' = rx_fifo
      BY <2>2 DEF Mask, Current, TakeBit
    <3>2. QED
      BY <2>2, <3>1 DEF Waiting, TakeBit
  <2>3. QED
    BY <2>1, <2>2
<1>6. Waiting' = SubSeq(Current, Mask + 1, ByteBits) \o Bits(rx_fifo')
  <2>1. pc' = "pull" /\ mask_bit_in' = Mask + 1 /\ mask_bit_in' # 1 /\ current_in' = Current
    BY <1>2 DEF TakeBit
  <2>2. QED
    BY <2>1 DEF Waiting
<1>7. QED
  BY <1>2, <1>4, <1>5, <1>6, FirstBit DEF CurrentBit

\* In the last byte's last bit and only there the frame is full.
LEMMA BitPlace ==
  ASSUME TypeOK, syncing
  PROVE  LET len == n_out * ByteBits + mask_bit_out - 1
         IN  /\ len \in 0 .. FrameBytes * ByteBits
             /\ len + 1 \in 0 .. FrameBytes * ByteBits
             /\ n_out \in 0 .. FrameBytes - 1 /\ mask_bit_out \in 1 .. ByteBits
             /\ len + 1 = n_out * ByteBits + mask_bit_out
             /\ len + 1 = FrameBytes * ByteBits
                  <=> mask_bit_out = ByteBits /\ n_out + 1 = FrameBytes
<1>1. /\ FrameBytes \in Nat \ {0} /\ ByteBits \in Nat \ {0}
      /\ n_out \in Nat /\ n_out < FrameBytes /\ mask_bit_out \in 1 .. ByteBits
  BY SizeAssumption DEF TypeOK
<1>2. PICK T \in Nat, Q \in Nat :
        T = FrameBytes * ByteBits /\ Q = n_out * ByteBits
  <2>1. FrameBytes * ByteBits \in Nat /\ n_out * ByteBits \in Nat
    BY <1>1, Product
  <2>2. QED
    BY <2>1
<1>3. Q + ByteBits <= T
  BY <1>1, <1>2, Products
<1>4. n_out + 1 = FrameBytes => Q + ByteBits = T
  BY <1>1, <1>2, Product
<1>5. n_out + 1 # FrameBytes => Q + ByteBits < T
  <2>1. SUFFICES ASSUME n_out + 1 # FrameBytes PROVE Q + ByteBits < T
    OBVIOUS
  <2>2. n_out + 1 \in Nat /\ n_out + 1 < FrameBytes
    BY <1>1, <2>1
  <2>3. (n_out + 1) * ByteBits + ByteBits <= FrameBytes * ByteBits
    BY <1>1, <2>2, Products
  <2>4. (n_out + 1) * ByteBits = Q + ByteBits
    BY <1>1, <1>2, Product
  <2>5. QED
    BY <1>1, <1>2, <2>3, <2>4
<1>6. QED
  BY <1>1, <1>2, <1>3, <1>4, <1>5

\* The bit joins those of the frame.
LEMMA BitStored ==
  ASSUME TypeOK, TakeBit, syncing
  PROVE  /\ Len(Gathered) + 1 = n_out * ByteBits + mask_bit_out
         /\ FirstBits(Store, n_out * ByteBits + mask_bit_out)
              = Append(Gathered, CurrentBit)
<1> DEFINE len == n_out * ByteBits + mask_bit_out - 1
<1>1. /\ len \in 0 .. FrameBytes * ByteBits
      /\ n_out \in 0 .. FrameBytes - 1 /\ mask_bit_out \in 1 .. ByteBits
      /\ len + 1 = n_out * ByteBits + mask_bit_out
  BY BitPlace
<1>2. buf_sync_out \in [0 .. FrameBytes - 1 -> Byte] /\ CurrentBit \in Bit
  BY BitType DEF TypeOK
<1>3. Gathered = FirstBits(buf_sync_out, len)
  BY DEF Gathered
<1>4. Len(Gathered) = len
  BY <1>1, <1>2, <1>3, FirstBitsFacts
<1>5. Len(Gathered) + 1 = n_out * ByteBits + mask_bit_out
  BY <1>1, <1>4
<1>6. FirstBits(Store, n_out * ByteBits + mask_bit_out)
        = Append(FirstBits(buf_sync_out, len), CurrentBit)
  BY <1>1, <1>2, FirstBitsStore DEF Store
<1>7. QED
  BY <1>3, <1>5, <1>6

\* Nothing gathered yet.
LEMMA NoBits ==
  ASSUME NEW buf
  PROVE  FirstBits(buf, 0 * ByteBits + 1 - 1) = <<>>
<1>1. 0 * ByteBits + 1 - 1 = 0
  BY SizeAssumption
<1>2. FirstBits(buf, 0) = <<>>
  BY DEF FirstBits
<1>3. QED
  BY <1>1, <1>2

LEMMA RefinesInit == Init => BitDeframer!Init
<1> SUFFICES ASSUME Init PROVE BitDeframer!Init
  OBVIOUS
<1>1. Waiting = <<>>
  <2>1. Waiting = <<>> \o <<>>
    BY BitsEmpty DEF Init, Waiting
  <2>2. QED
    BY <2>1
<1>2. QED
  BY <1>1 DEF Init, Gathered, Passed, BitDeframer!Init,
              BitDeframer!EmptyRegister, EmptyRegister

LEMMA RefinesReceive ==
  ASSUME TypeOK, NEW c \in Byte, RxWrite(c)
  PROVE  BitDeframer!Receive(c)
<1>1. rx_fifo \in Seq(Byte) /\ Len(rx_fifo) \in Nat /\ RxRoom \in Nat
  BY SizeAssumption DEF TypeOK
<1>2. Bits(rx_fifo) \in Seq(Bit) /\ Len(Bits(rx_fifo)) = Len(rx_fifo) * ByteBits
  BY <1>1, BitsFacts
<1>3. Waiting = Bits(rx_fifo)
  <2>1. Waiting = <<>> \o Bits(rx_fifo)
    BY DEF RxWrite, Waiting
  <2>2. QED
    BY <1>2, <2>1
<1>4. Len(Waiting) = RxRoom * ByteBits <=> Len(rx_fifo) = RxRoom
  BY <1>1, <1>2, <1>3, Products
<1>5. Waiting' = IF Len(rx_fifo) = RxRoom THEN c ELSE Bits(rx_fifo) \o c
  <2>1. c \in Seq(Bit)
    BY ByteFacts
  <2>2. <<c>> \in Seq(Byte) /\ <<c>> # <<>> /\ Head(<<c>>) = c /\ Tail(<<c>>) = <<>>
    OBVIOUS
  <2>3. Bits(<<c>>) = c \o <<>>
    BY <2>2, BitsHead, BitsEmpty
  <2>4. Bits(<<c>>) = c
    BY <2>1, <2>3
  <2>5. Bits(rx_fifo') = IF Len(rx_fifo) = RxRoom THEN c ELSE Bits(rx_fifo) \o c
    BY <1>1, <2>4, BitsAppend DEF RxWrite
  <2>6. Waiting' = <<>> \o Bits(rx_fifo')
    BY DEF RxWrite, Waiting
  <2>7. Bits(rx_fifo') \in Seq(Bit)
    BY <1>2, <2>1, <2>5
  <2>8. QED
    BY <2>5, <2>6, <2>7
<1>6. UNCHANGED <<buffer_sync_det, syncing, Gathered, Passed>>
  BY DEF RxWrite, Gathered, Passed, frame
<1>7. QED
  BY <1>3, <1>4, <1>5, <1>6 DEF BitDeframer!Receive

LEMMA RefinesHunt == TypeOK /\ Hunt => BitDeframer!Hunt
<1> SUFFICES ASSUME TypeOK, Hunt PROVE BitDeframer!Hunt
  OBVIOUS
<1>1. Waiting # <<>> /\ Head(Waiting) = CurrentBit /\ Waiting' = Tail(Waiting)
  BY BitTaken DEF Hunt
<1>2. Gathered = <<>> /\ Passed' = Passed
  BY DEF Hunt, Gathered, Passed
<1>3. Gathered' = <<>>
  <2>1. CASE WithinOne(Shifted)
    BY <2>1, NoBits DEF Hunt, Gathered
  <2>2. CASE ~WithinOne(Shifted)
    BY <2>2 DEF Hunt, Gathered
  <2>3. QED
    BY <2>1, <2>2
<1>4. BitDeframer!Shift(buffer_sync_det, Head(Waiting)) = Shifted
  BY <1>1 DEF BitDeframer!Shift, Shifted
<1>5. BitDeframer!Matches(Shifted) <=> WithinOne(Shifted)
  BY DEF BitDeframer!Matches, WithinOne, Cardinality, BitDeframer!Cardinality
<1>6. BitDeframer!EmptyRegister = EmptyRegister
  BY DEF BitDeframer!EmptyRegister, EmptyRegister
<1>7. IF WithinOne(Shifted)
        THEN buffer_sync_det' = EmptyRegister /\ syncing' = TRUE
        ELSE buffer_sync_det' = Shifted /\ UNCHANGED syncing
  BY DEF Hunt
<1>8. QED
  BY <1>1, <1>2, <1>3, <1>4, <1>5, <1>6, <1>7 DEF Hunt, BitDeframer!Hunt

LEMMA RefinesCollect == TypeOK /\ Collect => BitDeframer!Collect
<1> SUFFICES ASSUME TypeOK, Collect PROVE BitDeframer!Collect
  OBVIOUS
<1>1. Waiting # <<>> /\ Head(Waiting) = CurrentBit /\ Waiting' = Tail(Waiting)
  BY BitTaken DEF Collect
<1>2. /\ Len(Gathered) + 1 = n_out * ByteBits + mask_bit_out
      /\ FirstBits(Store, n_out * ByteBits + mask_bit_out)
           = Append(Gathered, CurrentBit)
  BY BitStored DEF Collect
<1>3. Len(Gathered) + 1 < FrameBytes * ByteBits
  <2>1. ~(mask_bit_out = ByteBits /\ n_out + 1 = FrameBytes)
    BY SizeAssumption DEF Collect
  <2>2. /\ n_out * ByteBits + mask_bit_out \in 0 .. FrameBytes * ByteBits
        /\ n_out * ByteBits + mask_bit_out # FrameBytes * ByteBits
    BY <2>1, BitPlace DEF Collect
  <2>3. FrameBytes * ByteBits \in Nat
    BY SizeAssumption
  <2>4. QED
    BY <1>2, <2>2, <2>3
<1>4. n_out' * ByteBits + mask_bit_out' - 1 = n_out * ByteBits + mask_bit_out
  <2>1. /\ n_out \in Nat /\ ByteBits \in Nat /\ mask_bit_out \in 1 .. ByteBits
        /\ n_out * ByteBits \in Nat
        /\ (n_out + 1) * ByteBits = n_out * ByteBits + ByteBits
    <3>1. n_out \in Nat /\ ByteBits \in Nat /\ mask_bit_out \in 1 .. ByteBits
      BY SizeAssumption DEF TypeOK
    <3>2. QED
      BY <3>1, Product
  <2>2. CASE mask_bit_out < ByteBits
    BY <2>1, <2>2 DEF Collect
  <2>3. CASE ~(mask_bit_out < ByteBits)
    <3>1. mask_bit_out = ByteBits /\ n_out' = n_out + 1 /\ mask_bit_out' = 1
      BY <2>1, <2>3 DEF Collect
    <3>2. n_out' * ByteBits = n_out * ByteBits + ByteBits
      BY <2>1, <3>1
    <3>3. QED
      BY <2>1, <3>1, <3>2
  <2>4. QED
    BY <2>2, <2>3
<1>5. Gathered' = Append(Gathered, CurrentBit)
  BY <1>2, <1>4 DEF Collect, Gathered
<1>6. Passed' = Passed
  BY DEF Collect, Passed
<1>7. QED
  BY <1>1, <1>3, <1>5, <1>6 DEF Collect, BitDeframer!Collect

LEMMA RefinesComplete == TypeOK /\ Complete => BitDeframer!Complete
<1> SUFFICES ASSUME TypeOK, Complete PROVE BitDeframer!Complete
  OBVIOUS
<1>1. Waiting # <<>> /\ Head(Waiting) = CurrentBit /\ Waiting' = Tail(Waiting)
  BY BitTaken DEF Complete
<1>2. /\ Len(Gathered) + 1 = n_out * ByteBits + mask_bit_out
      /\ FirstBits(Store, n_out * ByteBits + mask_bit_out)
           = Append(Gathered, CurrentBit)
  BY BitStored DEF Complete
<1>3. n_out * ByteBits + mask_bit_out = FrameBytes * ByteBits
  BY BitPlace DEF Complete
<1>4. Gathered' = <<>>
  BY DEF Complete, Gathered
<1>5. PICK published \in BOOLEAN : out' = <<Store, published>>
  <2>1. PICK accepted, pass_all \in BOOLEAN : out' = <<buf_sync_out', accepted \/ pass_all>>
    BY DEF Complete
  <2>2. buf_sync_out' = Store /\ (accepted \/ pass_all) \in BOOLEAN
    BY DEF Complete
  <2>3. QED
    BY <2>1, <2>2
<1>6. Passed' = <<Append(Gathered, Head(Waiting)), published>>
  <2>1. out' # <<>> /\ out'[1] = Store /\ out'[2] = published
    BY <1>5
  <2>2. QED
    BY <1>1, <1>2, <1>3, <2>1 DEF Passed
<1>7. QED
  BY <1>1, <1>2, <1>3, <1>4, <1>6 DEF Complete, BitDeframer!Complete

\* Calls of work() begin and end, and ccsds_pull is entered, where no bit moves.
LEMMA RefinesStutter ==
  ASSUME TypeOK,
         (\E k \in WorkBytes : StartWork(k)) \/ StartPull \/ EndPull \/ UNCHANGED vars
  PROVE  UNCHANGED BitDeframer!vars
<1> USE DEF input, loop, frame, vars
<1>1. Waiting' = Waiting
  <2>1. CASE EndPull
    <3>1. rx_fifo = <<>> /\ mask_bit_in = ByteBits + 1 /\ ByteBits \in Nat \ {0}
      BY <2>1, SizeAssumption DEF EndPull, LoopGoesOn, TypeOK
    <3>2. SubSeq(current_in, ByteBits + 1, ByteBits) = <<>>
      <4>1. current_in \in Seq(Bit) /\ Len(current_in) = ByteBits
        BY ByteFacts DEF TypeOK
      <4>2. QED
        BY <3>1, <4>1
    <3>3. Waiting = <<>> \o Bits(rx_fifo)
      BY <2>1, <3>1, <3>2 DEF Waiting
    <3>4. Waiting' = <<>> \o Bits(rx_fifo)
      BY <2>1 DEF EndPull, Waiting
    <3>5. QED
      BY <3>3, <3>4
  <2>2. CASE (\E k \in WorkBytes : StartWork(k)) \/ StartPull
    <3>1. Waiting = <<>> \o Bits(rx_fifo) /\ Waiting' = <<>> \o Bits(rx_fifo)
      BY <2>2 DEF StartWork, StartPull, Waiting
    <3>2. QED
      BY <3>1
  <2>3. CASE UNCHANGED vars
    BY <2>3 DEF Waiting
  <2>4. QED
    BY <2>1, <2>2, <2>3
<1>2. UNCHANGED <<buffer_sync_det, syncing, n_out, mask_bit_out, buf_sync_out, out>>
  BY DEF StartWork, StartPull, EndPull
<1>3. Gathered' = Gathered /\ Passed' = Passed
  BY <1>2 DEF Gathered, Passed
<1>4. QED
  BY <1>1, <1>2, <1>3 DEF BitDeframer!vars

\* Cutting the bits into bytes and calls of work() does not show.
THEOREM Deframes == Spec => DeframerSpec
<1>1. Init => BitDeframer!Init
  BY RefinesInit
<1>2. IInv /\ [Next]_vars => [BitDeframer!Next]_(BitDeframer!vars)
  BY RefinesReceive, RefinesHunt, RefinesCollect, RefinesComplete, RefinesStutter
     DEF IInv, Next, Thread, BitDeframer!Next
<1>3. QED
  BY <1>1, <1>2, Inductive, PTL DEF Spec, DeframerSpec, BitDeframer!Spec
=============================================================================

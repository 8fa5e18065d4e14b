--------------------------- MODULE FifoBufProofs ----------------------------
(***************************************************************************)
(* The ring buffer of FifoBuf, for every size above one and every set of   *)
(* byte values: the inductive invariant, the safety invariants the runs    *)
(* check, the two counting functions, and that the ring implements         *)
(* BoundedQueue.                                                           *)
(***************************************************************************)
EXTENDS FifoBuf, SequenceTheorems, TLAPS

-----------------------------------------------------------------------------
(* Arithmetic of the ring. *)

\* Advance keeps a pointer inside the array (the wrap of fifo_push and of
\* fifo_pop).
LEMMA AdvanceInRing == \A p \in Slot : Advance(p) \in Slot
  BY SizeAssumption DEF Slot, Begin, End, Advance

\* The number of bytes held is never above what fifo_len returns, and
\* fifo_room is exact while the other context stands still.
THEOREM RoomIsExact ==
  TypeOK => /\ Occupied \in 0 .. fifo_len
            /\ fifo_room = fifo_len - Occupied
  BY SizeAssumption
     DEF TypeOK, Occupied, fifo_room, fifo_len, Slot, Begin, End

\* fifo_isempty and fifo_isfull, read at one instant, say what they mean.
THEOREM TestsAreExact ==
  TypeOK => /\ (head = tail) <=> (Occupied = 0)
            /\ \/ head = Begin /\ tail = End
               \/ tail = head - 1
               <=> (Occupied = fifo_len)
  BY SizeAssumption
     DEF TypeOK, Occupied, fifo_len, Slot, Begin, End

-----------------------------------------------------------------------------
(* The inductive invariant. *)

LEMMA InitIInv == Init => IInv
  BY SizeAssumption
     DEF Init, IInv, TypeOK, TestsStayTrue, Slot, Begin, End, Occupied, fifo_len

LEMMA StepIInv == IInv /\ [Next]_vars => IInv'
<1> SUFFICES ASSUME IInv, [Next]_vars PROVE IInv'
  OBVIOUS
<1> USE SizeAssumption DEF IInv, TypeOK, TestsStayTrue, Slot, Begin, End,
        Occupied, fifo_len, Advance, rvars, wvars
<1>1. ASSUME NEW c \in Byte, StartWrite(c) PROVE IInv'
  BY <1>1 DEF StartWrite
<1>2. CASE IsFull1
  BY <1>2 DEF IsFull1
<1>3. CASE IsFull2
  BY <1>3 DEF IsFull2
<1>4. CASE PushStore
  BY <1>4 DEF PushStore
<1>5. CASE PushMove
  BY <1>5 DEF PushMove
<1>6. CASE NotEmpty
  BY <1>6 DEF NotEmpty
<1>7. CASE PopMoveFirst
  BY <1>7 DEF PopMoveFirst
<1>8. CASE PopLoadLast
  BY <1>8 DEF PopLoadLast
<1>9. CASE PopLoadFirst
  BY <1>9 DEF PopLoadFirst
<1>10. CASE PopMoveLast
  BY <1>10 DEF PopMoveLast
<1>11. CASE UNCHANGED vars
  BY <1>11 DEF vars
<1>12. CASE Flush
  BY <1>12 DEF Flush
<1>13. QED
  BY <1>1, <1>2, <1>3, <1>4, <1>5, <1>6, <1>7, <1>8, <1>9, <1>10, <1>11, <1>12
     DEF Next, Writer, Reader

THEOREM Inductive == Spec => []IInv
  BY InitIInv, StepIInv, PTL DEF Spec

\* The pointers never leave the array and every variable keeps its type.
THEOREM TypeCorrect == Spec => []TypeOK
  BY Inductive, PTL DEF IInv

\* What a test of the ring found still holds when its caller acts on it.
THEOREM TestsStay == Spec => []TestsStayTrue
  BY Inductive, PTL DEF IInv

\* The writer never touches the slot of a pop that has moved head and not yet
\* read its byte.
THEOREM NoTear == Spec => []NoTornSlot
<1>1. IInv => NoTornSlot
  BY SizeAssumption
     DEF IInv, TypeOK, TestsStayTrue, NoTornSlot, Occupied, fifo_len, Advance,
         Slot, Begin, End
<1>2. QED
  BY <1>1, Inductive, PTL

-----------------------------------------------------------------------------
(* The bytes held, as a sequence. *)

LEMMA ContentsType ==
  ASSUME TypeOK
  PROVE  /\ Occupied \in 0 .. fifo_len
         /\ Contents \in Seq(Byte)
         /\ Len(Contents) = Occupied
         /\ \A i \in 1 .. Occupied : /\ SlotOf(i) \in Slot
                                     /\ SlotOf(i) # tail
                                     /\ Contents[i] = buf[SlotOf(i)]
<1>1. Occupied \in Nat /\ Occupied \in 0 .. fifo_len
  BY SizeAssumption DEF TypeOK, Occupied, fifo_len, Slot, Begin, End
<1>2. \A i \in 1 .. Occupied : SlotOf(i) \in Slot /\ SlotOf(i) # tail
  BY SizeAssumption DEF TypeOK, Occupied, SlotOf, Slot, Begin, End
<1>3. \A i \in 1 .. Occupied : buf[SlotOf(i)] \in Byte
  BY <1>2 DEF TypeOK
<1>4. Contents \in [1 .. Occupied -> Byte]
  BY <1>3 DEF Contents
<1>5. Contents \in Seq(Byte) /\ Len(Contents) = Occupied
  BY <1>1, <1>4, SeqDef, LenProperties
<1>6. \A i \in 1 .. Occupied : Contents[i] = buf[SlotOf(i)]
  BY DEF Contents
<1>7. QED
  BY <1>1, <1>2, <1>5, <1>6

\* A step that moves neither pointer, and stores at most into the free slot
\* at tail, leaves the queue as it is.
LEMMA ContentsKept ==
  ASSUME TypeOK, head' = head, tail' = tail,
         \A s \in Slot : s # tail => buf'[s] = buf[s]
  PROVE  Contents' = Contents
<1>1. Occupied' = Occupied
  BY DEF Occupied
<1>2. \A i \in 1 .. Occupied : buf'[SlotOf(i)'] = buf[SlotOf(i)]
  <2>1. TAKE i \in 1 .. Occupied
  <2>2. SlotOf(i)' = SlotOf(i)
    BY DEF SlotOf
  <2>3. SlotOf(i) \in Slot /\ SlotOf(i) # tail
    BY ContentsType
  <2>4. QED
    BY <2>2, <2>3
<1>3. QED
  BY <1>1, <1>2 DEF Contents

\* Moving tail adds the byte stored at the old tail to the end of the queue.
LEMMA ContentsPut ==
  ASSUME TypeOK, Occupied < fifo_len,
         head' = head, buf' = buf, tail' = Advance(tail)
  PROVE  Contents' = Contents \o <<buf[tail]>>
<1>1. Occupied' = Occupied + 1
  BY SizeAssumption
     DEF TypeOK, Occupied, fifo_len, Advance, Slot, Begin, End
<1>2. SlotOf(Occupied + 1) = tail
  BY SizeAssumption DEF TypeOK, Occupied, SlotOf, Slot, Begin, End
<1>3. Contents' = [i \in 1 .. (Occupied + 1) |-> buf[SlotOf(i)]]
  BY <1>1 DEF Contents, SlotOf
<1>4. /\ Occupied \in Nat
      /\ Contents \in Seq(Byte)
      /\ Len(Contents) = Occupied
      /\ \A i \in 1 .. Occupied : Contents[i] = buf[SlotOf(i)]
  BY ContentsType, SizeAssumption DEF fifo_len, End, Begin
<1>5. buf[tail] \in Byte
  BY DEF TypeOK
<1>6. Contents \o <<buf[tail]>>
        = [i \in 1 .. (Occupied + 1) |->
             IF i <= Occupied THEN Contents[i] ELSE buf[tail]]
  BY <1>4, <1>5
<1>7. \A i \in 1 .. (Occupied + 1) :
        buf[SlotOf(i)] = IF i <= Occupied THEN Contents[i] ELSE buf[tail]
  BY <1>2, <1>4
<1>8. QED
  BY <1>3, <1>6, <1>7

\* Moving head takes the byte under the old head off the front of the queue.
LEMMA ContentsGet ==
  ASSUME TypeOK, Occupied > 0,
         tail' = tail, buf' = buf, head' = Advance(head)
  PROVE  /\ Contents # <<>>
         /\ Head(Contents) = buf[head]
         /\ Contents' = Tail(Contents)
<1>1. Occupied' = Occupied - 1
  BY SizeAssumption
     DEF TypeOK, Occupied, fifo_len, Advance, Slot, Begin, End
<1>2. \A i \in 1 .. (Occupied - 1) : SlotOf(i)' = SlotOf(i + 1)
  BY SizeAssumption
     DEF TypeOK, Occupied, Advance, SlotOf, Slot, Begin, End
<1>3. Contents' = [i \in 1 .. (Occupied - 1) |-> buf[SlotOf(i + 1)]]
  BY <1>1, <1>2 DEF Contents
<1>4. /\ Occupied \in Nat
      /\ Contents \in Seq(Byte)
      /\ Len(Contents) = Occupied
      /\ \A i \in 1 .. Occupied : Contents[i] = buf[SlotOf(i)]
  BY ContentsType, SizeAssumption DEF fifo_len, End, Begin
<1>5. SlotOf(1) = head
  BY SizeAssumption DEF TypeOK, SlotOf, Slot, Begin, End
<1>6. Contents # <<>> /\ Head(Contents) = buf[head]
  BY <1>4, <1>5
<1>7. Tail(Contents) = [i \in 1 .. (Occupied - 1) |-> Contents[i + 1]]
  <2>1. /\ Tail(Contents) \in Seq(Byte)
        /\ Len(Tail(Contents)) = Occupied - 1
        /\ \A i \in 1 .. (Occupied - 1) : Tail(Contents)[i] = Contents[i + 1]
    BY <1>4, <1>6, HeadTailProperties
  <2>2. Tail(Contents) = [i \in 1 .. (Occupied - 1) |-> Tail(Contents)[i]]
    BY <2>1, LenProperties
  <2>3. QED
    BY <2>1, <2>2
<1>8. \A i \in 1 .. (Occupied - 1) : Contents[i + 1] = buf[SlotOf(i + 1)]
  BY <1>4
<1>9. QED
  BY <1>3, <1>6, <1>7, <1>8

-----------------------------------------------------------------------------
(* The ring implements the bounded queue. *)

LEMMA InitQueue == Init => Queue!Init
<1> SUFFICES ASSUME Init PROVE Queue!Init
  OBVIOUS
<1>1. TypeOK /\ Occupied = 0
  BY InitIInv DEF IInv, Init, Occupied, Begin
<1>2. Contents = <<>>
  BY <1>1, ContentsType
<1>3. QED
  BY <1>2 DEF Queue!Init, Init, Taken

LEMMA StepQueue == IInv /\ [Next]_vars => [Queue!Next]_(Queue!vars)
<1> SUFFICES ASSUME IInv, [Next]_vars PROVE [Queue!Next]_(Queue!vars)
  OBVIOUS
<1> DEFINE asked == IF ppc = "idle" THEN <<>> ELSE <<pbyte>>
<1> DEFINE Stutter == /\ Contents' = Contents
                      /\ asked' = asked
                      /\ Taken' = Taken
<1>0. TypeOK /\ TestsStayTrue
  BY DEF IInv
<1>s. Stutter => [Queue!Next]_(Queue!vars)
  BY DEF Queue!vars
<1>1. ASSUME NEW c \in Byte, StartWrite(c) PROVE Queue!Ask(c)
  <2>1. Contents' = Contents /\ Taken' = Taken
    BY <1>0, <1>1, ContentsKept DEF StartWrite, rvars, Taken
  <2>2. QED
    BY <1>1, <2>1 DEF StartWrite, Queue!Ask
<1>2. CASE IsFull1 \/ IsFull2 \/ NotEmpty \/ PopLoadFirst \/ UNCHANGED vars
  <2>1. Contents' = Contents
    BY <1>0, <1>2, ContentsKept
       DEF IsFull1, IsFull2, NotEmpty, PopLoadFirst, vars, rvars, wvars
  <2>2. asked' = asked
    BY <1>2 DEF IsFull1, IsFull2, NotEmpty, PopLoadFirst, vars, rvars, wvars
  <2>3. Taken' = Taken
    BY <1>2
       DEF IsFull1, IsFull2, NotEmpty, PopLoadFirst, vars, rvars, wvars, Taken
  <2>4. QED
    BY <2>1, <2>2, <2>3, <1>s
<1>3. CASE PushStore
  <2>1. Contents' = Contents
    BY <1>0, <1>3, ContentsKept DEF PushStore, rvars, TypeOK
  <2>2. Taken' = Taken
    <3>1. cpc = "load" => cslot # tail
      BY <1>3, SizeAssumption
         DEF PushStore, IInv, TypeOK, TestsStayTrue, Occupied, fifo_len,
             Advance, Slot, Begin, End
    <3>2. QED
      BY <1>0, <1>3, <3>1 DEF PushStore, rvars, Taken, TypeOK
  <2>3. asked' = asked
    BY <1>3 DEF PushStore
  <2>4. QED
    BY <2>1, <2>2, <2>3, <1>s
<1>4. CASE PushMove
  <2>1. Occupied < fifo_len /\ buf[tail] = pbyte
    BY <1>4 DEF PushMove, IInv, TestsStayTrue
  <2>2. Contents' = Contents \o <<pbyte>>
    BY <1>0, <1>4, <2>1, ContentsPut DEF PushMove, rvars
  <2>3. Len(Contents) < fifo_len
    BY <1>0, <2>1, ContentsType
  <2>4. asked = <<pbyte>> /\ asked' = <<>> /\ asked # <<>>
    BY <1>4 DEF PushMove
  <2>5. Taken' = Taken
    BY <1>4 DEF PushMove, rvars, Taken
  <2>6. Queue!Put
    BY <2>2, <2>3, <2>4, <2>5 DEF Queue!Put
  <2>7. QED
    BY <2>6 DEF Queue!Next
<1>5. CASE PopMoveFirst
  <2>1. Occupied > 0
    BY <1>5 DEF PopMoveFirst, IInv, TestsStayTrue
  <2>2. Contents # <<>> /\ Head(Contents) = buf[head] /\ Contents' = Tail(Contents)
    BY <1>0, <1>5, <2>1, ContentsGet DEF PopMoveFirst, wvars
  <2>3. Taken' = buf[head]
    BY <1>5 DEF PopMoveFirst, wvars, Taken
  <2>4. asked' = asked
    BY <1>5 DEF PopMoveFirst, wvars
  <2>5. Queue!Get
    BY <2>2, <2>3, <2>4 DEF Queue!Get
  <2>6. QED
    BY <2>5 DEF Queue!Next
<1>6. CASE PopLoadLast
  <2>1. Contents' = Contents
    BY <1>0, <1>6, ContentsKept DEF PopLoadLast, wvars
  <2>2. asked' = asked /\ Taken' = Taken
    BY <1>6 DEF PopLoadLast, wvars, Taken
  <2>3. QED
    BY <2>1, <2>2, <1>s
<1>7. CASE PopMoveLast
  <2>1. Occupied > 0 /\ tmp = buf[head]
    BY <1>7 DEF PopMoveLast, IInv, TestsStayTrue
  <2>2. Contents # <<>> /\ Head(Contents) = buf[head] /\ Contents' = Tail(Contents)
    BY <1>0, <1>7, <2>1, ContentsGet DEF PopMoveLast, wvars
  <2>3. Taken' = buf[head]
    BY <1>7, <2>1 DEF PopMoveLast, wvars, Taken
  <2>4. asked' = asked
    BY <1>7 DEF PopMoveLast, wvars
  <2>5. Queue!Get
    BY <2>2, <2>3, <2>4 DEF Queue!Get
  <2>6. QED
    BY <2>5 DEF Queue!Next
<1>8. CASE Flush
  <2>1. Occupied = fifo_len
    BY <1>8, SizeAssumption
       DEF Flush, TypeOK, IInv, Occupied, fifo_len, Slot, Begin, End
  <2>2. Len(Contents) = fifo_len
    BY <1>0, <2>1, ContentsType
  <2>3. TypeOK' /\ Occupied' = 0
    BY <1>8, StepIInv, SizeAssumption
       DEF IInv, Flush, TypeOK, Occupied, Slot, Begin, End
  <2>4. Contents' = <<>>
    BY <2>3 DEF Contents
  <2>5. asked # <<>> /\ asked' = asked /\ Taken' = Taken
    BY <1>8 DEF Flush, Taken
  <2>6. Queue!Discard
    BY <2>2, <2>4, <2>5 DEF Queue!Discard
  <2>7. QED
    BY <2>6 DEF Queue!Next
<1>9. QED
  BY <1>1, <1>2, <1>3, <1>4, <1>5, <1>6, <1>7, <1>8
     DEF Next, Writer, Reader, Queue!Next

\* Every byte written comes out once, in order and unchanged, for every ring
\* size and every interleaving of a fifo_push with a fifo_pop.
THEOREM ImplementsQueue == Spec => QueueSpec
<1>1. Spec => []IInv
  BY Inductive
<1>2. QED
  BY <1>1, InitQueue, StepQueue, PTL DEF Spec, QueueSpec, Queue!Spec
=============================================================================

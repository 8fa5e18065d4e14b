------------------------------ MODULE FifoBuf -------------------------------
(***************************************************************************)
(* The ring buffer of lib/afsk/fifobuf.c, at the grain of its accesses to  *)
(* the volatile pointers head and tail and to the byte array, with one     *)
(* context that writes (the busy-wait on fifo_isfull and the fifo_push of  *)
(* ccsds_txwrite and afsk_write, the fifo_flush and the fifo_push of       *)
(* ccsds_rxwrite) and one that reads (the fifo_isempty and the fifo_pop of *)
(* ccsds_tx_proc, afsk_tx_proc and ccsds_pull).  The comments of the file  *)
(* promise that push and pop may run concurrently on a machine that stores *)
(* a pointer atomically; they promise nothing of fifo_flush.               *)
(*                                                                         *)
(* A pointer is its offset from fb->begin.  The int16_t copies of the      *)
(* operations (the _q15 functions) differ in the type of a slot only.      *)
(***************************************************************************)
EXTENDS Integers, Sequences

CONSTANTS
  Size,    \* the bytes of the array given to fifo_init
  Byte     \* the values of a slot

\* "FIFO buffers have a known bug with 1-byte buffers" (fifo_init).
ASSUME SizeAssumption == Size \in Nat /\ Size > 1

ASSUME ByteAssumption == Byte # {}

Begin == 0
End   == Size - 1
Slot  == Begin .. End

VARIABLES
  head,    \* the element to be extracted next
  tail,    \* the location following the last insertion
  buf,     \* the array
  ppc,     \* where the writer is
  pbyte,   \* the byte the writer was asked to write
  cpc,     \* where the reader is
  cslot,   \* the slot the reader has taken (old value of head)
  tmp,     \* the byte the reader loaded before it moved head
  ret      \* what the last fifo_pop returned

wvars == <<tail, buf, ppc, pbyte>>
rvars == <<head, cpc, cslot, tmp, ret>>
vars  == <<head, tail, buf, ppc, pbyte, cpc, cslot, tmp, ret>>

-----------------------------------------------------------------------------
\* fifo_init; the array is not cleared.
Init ==
  /\ head = Begin
  /\ tail = Begin
  /\ buf \in [Slot -> Byte]
  /\ ppc = "idle"
  /\ pbyte \in Byte
  /\ cpc = "idle"
  /\ cslot = Begin
  /\ tmp \in Byte
  /\ ret \in Byte

\* (Faulty variants that the checks must tell from the code have names of the
\* form <operation>_<fault>; Next does not use them.)
Advance_NoWrap(p) == p + 1

\* A pointer that stands on the last location is reset to begin.
Advance(p) == IF p = End THEN Begin ELSE p + 1

-----------------------------------------------------------------------------
(* The writer. *)

\* ccsds_txwrite(c), afsk_write: enter the loop that waits for room.
StartWrite(c) ==
  /\ ppc = "idle"
  /\ ppc' = "full1"
  /\ pbyte' = c
  /\ UNCHANGED <<tail, buf, rvars>>

IsFull1_NoWrapTest ==
  /\ ppc = "full1"
  /\ ppc' = "full2"
  /\ UNCHANGED <<tail, buf, pbyte, rvars>>

IsFull1_TailOnly ==
  /\ ppc = "full1"
  /\ tail # End
  /\ ppc' = "full2"
  /\ UNCHANGED <<tail, buf, pbyte, rvars>>

\* fifo_isfull, first disjunct: one read of head, and full (so wait again)
\* when head is on the first location and tail on the last.
IsFull1 ==
  /\ ppc = "full1"
  /\ ~(head = Begin /\ tail = End)
  /\ ppc' = "full2"
  /\ UNCHANGED <<tail, buf, pbyte, rvars>>

\* fifo_isfull, second disjunct: head is read again, the reader may have
\* moved it since.  Full sends the writer back to the loop.
IsFull2 ==
  /\ ppc = "full2"
  /\ ppc' = IF tail = head - 1 THEN "full1" ELSE "store"
  /\ UNCHANGED <<tail, buf, pbyte, rvars>>

\* fifo_push: write at the tail position ...
PushStore ==
  /\ ppc = "store"
  /\ buf' = [buf EXCEPT ![tail] = pbyte]
  /\ ppc' = "move"
  /\ UNCHANGED <<tail, pbyte, rvars>>

\* ... then wrap tail around or move it forward.
PushMove ==
  /\ ppc = "move"
  /\ tail' = Advance(tail)
  /\ ppc' = "idle"
  /\ UNCHANGED <<buf, pbyte, rvars>>

Writer ==
  \/ IsFull1
  \/ IsFull2
  \/ PushStore
  \/ PushMove

\* ccsds_rxwrite does not wait: it makes a full ring empty and goes on to
\* push.  Flush moves the reader's pointer, so the reader is not in fifo_pop:
\* the thread that writes there is the one that reads.
Flush ==
  /\ cpc = "idle"
  /\ \/ ppc = "full1" /\ head = Begin /\ tail = End
     \/ ppc = "full2" /\ tail = head - 1
  /\ head' = tail
  /\ ppc' = "store"
  /\ UNCHANGED <<tail, buf, pbyte, cpc, cslot, tmp, ret>>

-----------------------------------------------------------------------------
(* The reader. *)

\* fifo_isempty said no: go on to fifo_pop.
NotEmpty ==
  /\ cpc = "idle"
  /\ head # tail
  /\ cpc' = "pop"
  /\ UNCHANGED <<head, cslot, tmp, ret, wvars>>

\* fifo_pop, head moved before the byte is read: the statement order of the
\* wrapping branch, and one of the two that *(fb->head++) leaves open.
PopMoveFirst ==
  /\ cpc = "pop"
  /\ cslot' = head
  /\ head' = Advance(head)
  /\ cpc' = "load"
  /\ UNCHANGED <<tmp, ret, wvars>>

PopLoadLast_NewHead ==
  /\ cpc = "load"
  /\ ret' = buf[head]
  /\ cpc' = "idle"
  /\ UNCHANGED <<head, cslot, tmp, wvars>>

PopLoadLast ==
  /\ cpc = "load"
  /\ ret' = buf[cslot]
  /\ cpc' = "idle"
  /\ UNCHANGED <<head, cslot, tmp, wvars>>

\* fifo_pop, the other order of *(fb->head++): the byte is read first.  (The
\* array is not volatile, so the wrapping branch may be built so as well.)
PopLoadFirst ==
  /\ cpc = "pop"
  /\ tmp' = buf[head]
  /\ cpc' = "move"
  /\ UNCHANGED <<head, cslot, ret, wvars>>

PopMoveLast ==
  /\ cpc = "move"
  /\ ret' = tmp
  /\ head' = Advance(head)
  /\ cpc' = "idle"
  /\ UNCHANGED <<cslot, tmp, wvars>>

Reader ==
  \/ NotEmpty
  \/ PopMoveFirst
  \/ PopLoadLast
  \/ PopLoadFirst
  \/ PopMoveLast

-----------------------------------------------------------------------------
Next ==
  \/ \E c \in Byte : StartWrite(c)
  \/ Writer
  \/ Flush
  \/ Reader

Spec == Init /\ [][Next]_vars

\* The thread that is in the busy-wait or in fifo_push runs on.  Nothing makes
\* the reader run: in a block it is called by the thread that waits.
FairSpec == Spec /\ WF_vars(Writer)

-----------------------------------------------------------------------------
(* What the ring holds. *)

\* fifo_len: the capacity of the ring, one less than its slots.
fifo_len == End - Begin

\* The number of bytes between head and tail.
Occupied == IF head <= tail THEN tail - head ELSE tail - head + Size

\* fifo_room as a caller sees it when the other context stands still.
fifo_room == IF tail < head THEN head - tail - 1 ELSE head - tail + End - Begin

\* The slot of the i-th byte from head, i = 1 the oldest.
SlotOf(i) == IF head + i - 1 <= End THEN head + i - 1 ELSE head + i - 1 - Size

Contents == [i \in 1 .. Occupied |-> buf[SlotOf(i)]]

\* The byte the reader has taken: still in the array while cpc = "load".
Taken == IF cpc = "load" THEN buf[cslot] ELSE ret

-----------------------------------------------------------------------------
(* Properties. *)

\* The variables keep their types: no pointer leaves the array, which is the
\* ASSERT_VALID_FIFO that fifobuf.h states and the code has commented out.
TypeOK ==
  /\ head \in Slot
  /\ tail \in Slot
  /\ buf \in [Slot -> Byte]
  /\ ppc \in {"idle", "full1", "full2", "store", "move"}
  /\ pbyte \in Byte
  /\ cpc \in {"idle", "pop", "load", "move"}
  /\ cslot \in Slot
  /\ tmp \in Byte
  /\ ret \in Byte

\* The slot the reader has taken and not yet read is not the one the writer
\* is about to overwrite: the gap that fifo_isfull keeps between tail and
\* head is there for a fifo_pop caught between its two steps.
NoTornSlot ==
  ~ (/\ cpc = "load"
     /\ ppc \in {"store", "move"}
     /\ cslot = tail)

\* A writer past fifo_isfull has a free slot, and a reader past fifo_isempty
\* a byte, whatever the other side did since the test ("the caller must make
\* sure the buffer has at least one free slot", fifo_push).
TestsStayTrue ==
  /\ ppc \in {"store", "move"} => Occupied < fifo_len
  /\ cpc \in {"pop", "move"} => Occupied > 0

\* The ring implements a bounded queue of Size - 1 bytes: every byte asked for
\* enters once, and comes out once, in order and unchanged, whichever order
\* the build gives *(fb->head++).  A pop takes effect when head moves, a push
\* when tail does.
Queue == INSTANCE BoundedQueue
           WITH Capacity <- fifo_len,
                q        <- Contents,
                req      <- IF ppc = "idle" THEN <<>> ELSE <<pbyte>>,
                out      <- Taken

QueueSpec == Queue!Spec

\* Room is enough: a writer that is asked for a byte, or has waited, while the
\* ring is not full gets through by itself, with its pointers anywhere and
\* whether the reader moves or never runs again.  The two disjuncts of
\* fifo_isfull do not say full for ever of a ring with room, and between them
\* they meet every place of tail.  This is all the busy-waits of ccsds_txwrite
\* and afsk_write have to go by, since nobody drains while they wait.
RoomSuffices == (ppc # "idle" /\ Occupied < fifo_len) ~> (ppc = "idle")

\* What makes the invariants inductive: a slot that was found free stays free
\* although fifo_isfull reads head twice, the taken slot is the one just
\* behind head, and a byte loaded early is still the one under head.
IInv ==
  /\ TypeOK
  /\ TestsStayTrue
  /\ ppc = "full2" => ~(head = Begin /\ tail = End)
  /\ ppc = "move" => buf[tail] = pbyte
  /\ cpc = "load" => head = Advance(cslot)
  /\ cpc = "move" => tmp = buf[head]
=============================================================================

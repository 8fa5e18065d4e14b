---------------------------- MODULE BoundedQueue ----------------------------
(***************************************************************************)
(* What lib/afsk/fifobuf.c promises its two users: a first-in first-out    *)
(* queue of bytes that holds at most Capacity of them.  The writer adds at *)
(* the end the byte it was asked to write, the reader takes the oldest     *)
(* byte, and neither has to lock the other out.  A writer that reads too   *)
(* may throw away a full queue in order to go on.                          *)
(***************************************************************************)
EXTENDS Naturals, Sequences

CONSTANTS
  Byte,      \* the values a slot can hold
  Capacity   \* how many of them the queue holds

VARIABLES
  q,         \* the bytes written and not yet taken, oldest first
  req,       \* the byte the writer was asked to write, <<>> if none
  out        \* the byte the last pop took

vars == <<q, req, out>>

Init ==
  /\ q = <<>>
  /\ req = <<>>
  /\ out \in Byte

\* A client asks for a byte to be written.
Ask(c) ==
  /\ req = <<>>
  /\ req' = <<c>>
  /\ UNCHANGED <<q, out>>

\* There is room: the byte enters the queue.
Put ==
  /\ req # <<>>
  /\ Len(q) < Capacity
  /\ q' = q \o req
  /\ req' = <<>>
  /\ UNCHANGED out

\* The oldest byte leaves the queue.
Get ==
  /\ q # <<>>
  /\ out' = Head(q)
  /\ q' = Tail(q)
  /\ UNCHANGED req

\* A full queue is made empty; the byte asked for is still to be put.
Discard ==
  /\ req # <<>>
  /\ Len(q) = Capacity
  /\ q' = <<>>
  /\ UNCHANGED <<req, out>>

Next ==
  \/ \E c \in Byte : Ask(c)
  \/ Put
  \/ Discard
  \/ Get

Spec == Init /\ [][Next]_vars
=============================================================================

------------------------------ MODULE Deframer ------------------------------
(***************************************************************************)
(* What the CCSDS receiver promises, bit by bit: the received bits are     *)
(* searched for the sync word, one wrong bit allowed; the frame is the     *)
(* FrameBits bits that follow it, wherever in a byte it starts and however *)
(* the bits were cut into calls of work(); then the search starts anew,    *)
(* with an empty register.  Bits are lost only when a whole Room of them   *)
(* waits, and then all that wait are.                                      *)
(***************************************************************************)
EXTENDS Naturals, Sequences, FiniteSets

CONSTANTS
  SyncWord,   \* the bits of the sync word, first sent first
  Byte,       \* the bit strings that arrive together
  FrameBits,  \* bits of data and check symbols
  Room        \* bits that can wait

VARIABLES
  pending,    \* bits received and not yet looked at
  register,   \* the last bits of the search, zeros to start with
  got,        \* the bits of the frame so far
  collecting,
  out         \* the frame last passed on, and whether it was published

vars == <<pending, register, got, collecting, out>>

EmptyRegister == [k \in DOMAIN SyncWord |-> 0]

\* The register and the sync word differ in one place at most.
Matches(r) == Cardinality({k \in DOMAIN SyncWord : r[k] # SyncWord[k]}) <= 1

Shift(r, b) == Append(Tail(r), b)

Init ==
  /\ pending = <<>>
  /\ register = EmptyRegister
  /\ got = <<>>
  /\ collecting = FALSE
  /\ out = <<>>

Receive(c) ==
  /\ pending' = IF Len(pending) = Room THEN c ELSE pending \o c
  /\ UNCHANGED <<register, got, collecting, out>>

Hunt ==
  /\ ~collecting
  /\ pending # <<>>
  /\ pending' = Tail(pending)
  /\ LET r == Shift(register, Head(pending)) IN
       IF Matches(r)
         THEN register' = EmptyRegister /\ collecting' = TRUE
         ELSE register' = r /\ UNCHANGED collecting
  /\ UNCHANGED <<got, out>>

Collect ==
  /\ collecting
  /\ pending # <<>>
  /\ Len(got) + 1 < FrameBits
  /\ pending' = Tail(pending)
  /\ got' = Append(got, Head(pending))
  /\ UNCHANGED <<register, collecting, out>>

\* The last bit of a frame.
Complete ==
  /\ collecting
  /\ pending # <<>>
  /\ Len(got) + 1 = FrameBits
  /\ pending' = Tail(pending)
  /\ got' = <<>>
  /\ collecting' = FALSE
  /\ \E published \in BOOLEAN :
       out' = <<Append(got, Head(pending)), published>>
  /\ UNCHANGED register

Next ==
  \/ \E c \in Byte : Receive(c)
  \/ Hunt
  \/ Collect
  \/ Complete

Spec == Init /\ [][Next]_vars
=============================================================================

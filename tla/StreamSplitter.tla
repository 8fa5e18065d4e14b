--------------------------- MODULE StreamSplitter ---------------------------
(***************************************************************************)
(* The packets between the LilacSat proxy and its server: the handler of   *)
(* lilacsat_proxy.py that packs a frame, and StreamSpliter2                *)
(* (StreamSpliterV2/StreamSpliter2.py) that takes packets out of a stream  *)
(* which arrives in arbitrary pieces.  The way the stream takes from one   *)
(* to the other (LilacProxy has it) only keeps its order.                  *)
(***************************************************************************)
EXTENDS Integers, Sequences

CONSTANTS
  Overhead,     \* bytes of nickname, longitude, latitude and reserve: 64 in the code
  maxPacketSize \* 1024 in the code

ASSUME SplitterAssumption ==
  Overhead \in Nat \ {0} /\ maxPacketSize \in Nat

VARIABLES
  packets,  \* the frames that were packed
  due,      \* the bodies of those that are not too long
  stream,   \* the bytes of the packets
  read,     \* how many of them the server has read
  DataBuffer, haderFound, PacketSize, StateNow,   \* StreamSpliter2
  busy,     \* NewStream is running
  out       \* what the callback got

server       == <<read, DataBuffer, haderFound, PacketSize, StateNow, busy, out>>
splitterVars == <<packets, due, stream, server>>

SplitterInit ==
  /\ packets = <<>> /\ due = <<>> /\ stream = <<>>
  /\ read = 0
  /\ DataBuffer = <<>> /\ haderFound = 0 /\ PacketSize = 0 /\ StateNow = 0
  /\ busy = FALSE /\ out = <<>>

-----------------------------------------------------------------------------
(* Packing. *)

\* "PaC_t".
Header == <<80, 97, 67, 95, 116>>

\* struct.pack("I", n) and struct.unpack('i', b), of the same byte order.
PackLength(n) == <<n % 256, (n \div 256) % 256, (n \div 65536) % 256, n \div 16777216>>
UnpackLength(b) ==
  b[1] + 256 * b[2] + 65536 * b[3] + 16777216 * (IF b[4] > 127 THEN b[4] - 256 ELSE b[4])

\* What a packet carries: the station's data, of which any byte may do, and the
\* frame.
Body(f) == [k \in 1 .. Overhead |-> 0] \o f

\* handle_D_L2RA_Kiss: the length is that of the body, and the type is 1.
Pack(f) == Header \o PackLength(Len(f) + Overhead) \o <<1>> \o Body(f)

TooLong(f) == Len(f) + Overhead >= maxPacketSize

SendPacket(f) ==
  /\ packets' = Append(packets, f)
  /\ due' = IF TooLong(f) THEN due ELSE Append(due, Body(f))
  /\ stream' = stream \o Pack(f)
  /\ UNCHANGED server

-----------------------------------------------------------------------------
(* NewStream, called with what one recv returned: its three states, each   *)
(* with the way back to recv.                                              *)

NewStream(n) ==
  /\ ~busy
  /\ busy' = TRUE
  /\ read' = read + n
  /\ DataBuffer' = DataBuffer \o SubSeq(stream, read + 1, read + n)
  /\ UNCHANGED <<packets, due, stream, haderFound, PacketSize, StateNow, out>>

\* A header stands in front of place k + 1 of s.
HeaderEnds(s, k) == k \in 5 .. Len(s) /\ SubSeq(s, k - 4, k) = Header

\* The bytes behind the header.
Rest == Len(DataBuffer) - haderFound

In(state) == busy /\ StateNow = state

FindHeader ==
  /\ In(0)
  /\ \E k \in DOMAIN DataBuffer :
       /\ HeaderEnds(DataBuffer, k)
       /\ \A j \in 1 .. k - 1 : ~HeaderEnds(DataBuffer, j)
       /\ haderFound' = k
  /\ StateNow' = 1
  /\ UNCHANGED <<packets, due, stream, read, DataBuffer, PacketSize, busy, out>>

\* (A faulty variant that the checks must tell from the code; nothing uses it.)
\* Room for three bytes of a header only.
LastFour_three(b) == SubSeq(b, (IF Len(b) > 3 THEN Len(b) - 2 ELSE 1), Len(b))

\* The last four bytes may be the beginning of a header.
LastFour(b) == SubSeq(b, (IF Len(b) > 4 THEN Len(b) - 3 ELSE 1), Len(b))

NoHeader ==
  /\ In(0)
  /\ \A k \in DOMAIN DataBuffer : ~HeaderEnds(DataBuffer, k)
  /\ DataBuffer' = LastFour(DataBuffer)
  /\ busy' = FALSE
  /\ UNCHANGED <<packets, due, stream, read, haderFound, PacketSize, StateNow, out>>

\* NextPacket: cut bytes are done with.
NextPacket(cut) ==
  /\ DataBuffer' = SubSeq(DataBuffer, cut + 1, Len(DataBuffer))
  /\ haderFound' = 0 /\ PacketSize' = 0 /\ StateNow' = 0
  /\ UNCHANGED <<packets, due, stream, read, busy>>

\* The size is read when six bytes follow the header; a wrong one costs a byte.
\* (The type read with it is that of the first byte of the body.)
ReadSize ==
  /\ In(1)
  /\ Rest > 5
  /\ LET length == UnpackLength(SubSeq(DataBuffer, haderFound + 1, haderFound + 4))
     IN  IF length <= 0 \/ length >= maxPacketSize
         THEN NextPacket(1) /\ UNCHANGED out
         ELSE /\ PacketSize' = length
              /\ StateNow' = 2
              /\ UNCHANGED <<packets, due, stream, read, DataBuffer, haderFound, busy, out>>

TakePacket ==
  /\ In(2)
  /\ Rest - 5 >= PacketSize
  /\ out' = Append(out, SubSeq(DataBuffer, haderFound + 6, haderFound + 5 + PacketSize))
  /\ NextPacket(haderFound + 5 + PacketSize)

\* Not enough is there.
Wait ==
  /\ \/ In(1) /\ Rest <= 5
     \/ In(2) /\ Rest - 5 < PacketSize
  /\ busy' = FALSE
  /\ UNCHANGED <<packets, due, stream, read, DataBuffer, haderFound, PacketSize, StateNow, out>>

SplitterNext ==
  \/ \E n \in 1 .. Len(stream) - read : NewStream(n)
  \/ FindHeader
  \/ NoHeader
  \/ ReadSize
  \/ TakePacket
  \/ Wait
=============================================================================

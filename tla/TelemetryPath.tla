--------------------------- MODULE TelemetryPath ----------------------------
(***************************************************************************)
(* A frame's way from GNU Radio to the server: framed in KISS, sent        *)
(* through TCP connections that may break, decoded (Kiss), packed by the   *)
(* LilacSat-1 proxy and taken out of the stream to the server              *)
(* (StreamSplitter).                                                       *)
(***************************************************************************)
EXTENDS Kiss, StreamSplitter

vars == <<kissVars, splitterVars>>

Init == KissInit /\ SplitterInit

\* handle_D_L2RA gives the bytes to the decoder, whose callback is
\* handle_D_L2RA_Kiss.
handle_D_L2RA ==
  /\ KissNext
  /\ IF lilac'.out = lilac.out THEN UNCHANGED splitterVars
     ELSE SendPacket(lilac'.out[Len(lilac'.out)])

\* Whatever comes from the stream goes to NewStream.
Server == SplitterNext /\ UNCHANGED kissVars

Next == handle_D_L2RA \/ Server

Spec == Init /\ [][Next]_vars

-----------------------------------------------------------------------------
(* Properties. *)

\* What has arrived of the frame.
Received == SubSeq(frame, 1, at - 1)

\* A FEND that ends a frame arrives: its own, or the first of the next
\* connection, unless that one stands behind an escape.
Ends ==
  \/ pc = "frame" /\ pc' = "idle"
  \/ pc = "broken" /\ pc' = "frame" /\ ~escaped

\* What the decoders should put out in this step.
Due == IF Ends /\ Received # <<>> THEN <<Received>> ELSE <<>>

\* The last elements of a sequence.
EndsIn(s, t) ==
  /\ Len(s) >= Len(t)
  /\ \A k \in DOMAIN t : s[Len(s) - Len(t) + k] = t[k]

WholeStep ==
  /\ block'.out = block.out \o Due
  /\ ~merged => lilac'.out = lilac.out \o Due
  /\ Due # <<>> => /\ Len(lilac'.out) = Len(lilac.out) + 1
                  /\ EndsIn(lilac'.out[Len(lilac'.out)], Received)
  /\ ~missed /\ ~returned => dslwp'.out = dslwp.out \o Due

\* However the stream is cut into reads and wherever connections break in the
\* middle of a frame, what has arrived of a frame comes out when a FEND behind
\* it does, and nothing else comes out: of the decoder of the blocks always; of
\* that of DSLWP if it looked at every byte of the frame and the connection
\* before did not break behind an escape; and so of that of LilacSat-1, which in
\* the other case puts the frame behind what it had of the one before.
FramesWhole == [][WholeStep]_vars

\* What the decoder of the blocks holds fits its buffer, whatever breaks.
BufferFits == Len(block.buffer) <= BufLen

\* A frame whose packet is too long for the server is looked through for a
\* header; its own may not be in it, and its length is one for struct.pack.
Harmless(f) ==
  /\ Len(f) + Overhead <= 2147483647
  /\ TooLong(f) => \A k \in DOMAIN f : ~HeaderEnds(f, k)

\* The server takes out of its stream the packets that were put in and are not
\* too long, whatever they hold and however the stream is cut; each as soon as
\* its last byte is there.
PacketsWhole ==
  (\A k \in DOMAIN packets : Harmless(packets[k])) =>
    /\ out = SubSeq(due, 1, Len(out))
    /\ ~busy /\ read = Len(stream) => out = due
=============================================================================

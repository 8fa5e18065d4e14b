----------------------------- MODULE FecEncode ------------------------------
(***************************************************************************)
(* The CCSDS transmitter: the block fec_encode_b (lib/fec_encode_b_impl.cc)*)
(* around ccsds_send and ccsds_tx_proc of lib/ccsds/ccsds.c.  The block    *)
(* ccsds_afsk_encode has the same control with a modulator behind it.      *)
(*                                                                         *)
(* GNU Radio runs a block in one thread: it hands every queued message to  *)
(* pmt_in_callback, and when the queue is empty it calls work().  So the   *)
(* busy-wait on a full FIFO in ccsds_txwrite, and the work() that drains   *)
(* the FIFO, are steps of the same thread.                                 *)
(*                                                                         *)
(* The bytes that go through tx_fifo are numbered in the order they are    *)
(* pushed; the FIFO hands them out in that order (FifoBufProofs), so it is *)
(* the interval popped + 1 .. pushed.  Frame k is the bytes from           *)
(* (k - 1) * FrameLen + 1 to k * FrameLen: sync word, data, check bytes.   *)
(***************************************************************************)
EXTENDS Integers

CONSTANTS
  FrameLen,      \* bytes ccsds_send pushes: 4 + len_frame + RS_LENGTH
  PreambleLen,   \* cfg_preamble_len
  TrailerLen,    \* cfg_trailer_len
  TxRoom,        \* bytes tx_fifo can hold: its array less one
  Backlog,       \* bytes a client lets wait, accepted and not yet sent
  WorkBytes,     \* bytes the output buffer may have room for, in one work()
  MaxFrames      \* bound on the messages posted

ASSUME LenAssumption ==
  /\ FrameLen \in Nat \ {0}
  /\ PreambleLen \in Nat
  /\ TrailerLen \in Nat
  /\ TxRoom \in Nat \ {0}
  /\ Backlog \in Nat
  /\ MaxFrames \in Nat

\* set_output_multiple(16): room for a byte at least.
ASSUME WorkAssumption == WorkBytes # {} /\ WorkBytes \subseteq Nat \ {0}

VARIABLES
  cfg_continous,    \* constructor argument: the trailer never ends
  cfg_padding_zero, \* constructor argument: zeros between bursts
  posted,        \* messages put in the block's queue
  taken,         \* messages handed to pmt_in_callback
  pc,            \* the block's thread: "sched", "push" (ccsds_send), "tx"
  n,             \* nbytes of the current ccsds_tx_proc
  i,             \* bytes it has put out; when it has returned, what it returned
  sending,
  preamble_len,
  trailer_len,
  pushed,        \* number of the last byte pushed to tx_fifo
  popped,        \* number of the last byte popped from it
  d_ptt,
  ptt,           \* the last command published on the "ptt" port
  pre,           \* history: preamble bytes put out since sending was set
  quiet          \* history: trailer bytes since the last data byte

cfg    == <<cfg_continous, cfg_padding_zero>>
client == <<posted, taken>>
tx     == <<sending, preamble_len, trailer_len, pushed, popped, pre, quiet>>
radio  == <<d_ptt, ptt>>
vars   == <<cfg, client, pc, n, i, tx, radio>>

\* ccsds_init and the constructor.  Neither sets d_ptt: it is whatever the
\* allocated memory held.  preamble_len and trailer_len are not set either,
\* and are not read before ccsds_txwrite has set them.
Init ==
  /\ cfg_continous \in {0, 1}
  /\ cfg_padding_zero \in {0, 1}
  /\ posted = 0
  /\ taken = 0
  /\ pc = "sched"
  /\ n = 0
  /\ i = 0
  /\ sending = 0
  /\ preamble_len = 0
  /\ trailer_len = 0
  /\ pushed = 0
  /\ popped = 0
  /\ d_ptt \in {0, 1}
  /\ ptt = "none"
  /\ pre = 0
  /\ quiet = 0

-----------------------------------------------------------------------------
(* The messages. *)

\* A client posts a frame, if what it has waiting stays within Backlog.
Post ==
  /\ posted < MaxFrames
  /\ (posted + 1) * FrameLen - popped <= Backlog
  /\ posted' = posted + 1
  /\ UNCHANGED <<cfg, taken, pc, n, i, tx, radio>>

\* The scheduler gives the next queued message to pmt_in_callback.
Dispatch ==
  /\ pc = "sched"
  /\ taken < posted
  /\ taken' = taken + 1
  /\ pc' = "push"
  /\ UNCHANGED <<cfg, posted, n, i, tx, radio>>

\* (Faulty variants that the checks must tell from the code have names of the
\* form <action>_<fault>; Next does not use them.)
TxWrite_NoPreamble ==
  /\ pc = "push"
  /\ pushed - popped < TxRoom
  /\ sending' = 1
  /\ trailer_len' = IF sending = 1 THEN trailer_len ELSE TrailerLen
  /\ pre' = IF sending = 1 THEN pre ELSE 0
  /\ quiet' = IF sending = 1 THEN quiet ELSE 0
  /\ pushed' = pushed + 1
  /\ pc' = IF pushed + 1 = taken * FrameLen THEN "sched" ELSE "push"
  /\ UNCHANGED <<cfg, client, n, i, preamble_len, popped, radio>>

TxWrite_OneMore ==
  /\ pc = "push"
  /\ pushed - popped < TxRoom
  /\ sending' = 1
  /\ preamble_len' = IF sending = 1 THEN preamble_len ELSE PreambleLen
  /\ trailer_len' = IF sending = 1 THEN trailer_len ELSE TrailerLen
  /\ pre' = IF sending = 1 THEN pre ELSE 0
  /\ quiet' = IF sending = 1 THEN quiet ELSE 0
  /\ pushed' = pushed + 1
  /\ pc' = IF pushed = taken * FrameLen THEN "sched" ELSE "push"
  /\ UNCHANGED <<cfg, client, n, i, popped, radio>>

\* ccsds_txwrite, once for each byte of ccsds_send.  It waits for ever while
\* the FIFO is full: the thread that would drain it is this one.
TxWrite ==
  /\ pc = "push"
  /\ pushed - popped < TxRoom
  /\ IF sending = 1
       THEN UNCHANGED <<sending, preamble_len, trailer_len, pre, quiet>>
       ELSE /\ sending' = 1
            /\ preamble_len' = PreambleLen
            /\ trailer_len' = TrailerLen
            /\ pre' = 0
            /\ quiet' = 0
  /\ pushed' = pushed + 1
  /\ pc' = IF pushed + 1 = taken * FrameLen THEN "sched" ELSE "push"
  /\ UNCHANGED <<cfg, client, n, i, popped, radio>>

-----------------------------------------------------------------------------
(* work(): ccsds_tx_proc, a byte at a time, then the PTT. *)

\* The queue is empty: the scheduler calls work() with room for k bytes.
StartWork(k) ==
  /\ pc = "sched"
  /\ taken = posted
  /\ pc' = "tx"
  /\ n' = k
  /\ i' = 0
  /\ UNCHANGED <<cfg, client, tx, radio>>

\* One more byte of the loop is put out.
PutOut ==
  /\ pc = "tx"
  /\ i < n
  /\ i' = i + 1
  /\ UNCHANGED <<cfg, client, pc, n, pushed, radio>>

TxPreamble_NoCount ==
  /\ sending = 1
  /\ preamble_len > 0
  /\ PutOut
  /\ UNCHANGED <<sending, preamble_len, trailer_len, popped, pre, quiet>>

TxPreamble ==
  /\ sending = 1
  /\ preamble_len > 0
  /\ preamble_len' = preamble_len - 1
  /\ pre' = pre + 1
  /\ PutOut
  /\ UNCHANGED <<sending, trailer_len, popped, quiet>>

TxData_KeepTrailer ==
  /\ sending = 1
  /\ preamble_len = 0
  /\ popped < pushed
  /\ popped' = popped + 1
  /\ quiet' = 0
  /\ PutOut
  /\ UNCHANGED <<sending, preamble_len, trailer_len, pre>>

TxData ==
  /\ sending = 1
  /\ preamble_len = 0
  /\ popped < pushed
  /\ popped' = popped + 1
  /\ trailer_len' = TrailerLen
  /\ quiet' = 0
  /\ PutOut
  /\ UNCHANGED <<sending, preamble_len, pre>>

TxTrailer_First ==
  /\ sending = 1
  /\ preamble_len = 0
  /\ trailer_len > 0
  /\ trailer_len' = IF cfg_continous = 1 THEN trailer_len ELSE trailer_len - 1
  /\ quiet' = IF quiet < TrailerLen THEN quiet + 1 ELSE quiet
  /\ PutOut
  /\ UNCHANGED <<sending, preamble_len, popped, pre>>

TxTrailer_NoTest ==
  /\ sending = 1
  /\ preamble_len = 0
  /\ popped = pushed
  /\ trailer_len' = IF cfg_continous = 1 THEN trailer_len ELSE trailer_len - 1
  /\ quiet' = IF quiet < TrailerLen THEN quiet + 1 ELSE quiet
  /\ PutOut
  /\ UNCHANGED <<sending, preamble_len, popped, pre>>

TxTrailer_Inverted ==
  /\ sending = 1
  /\ preamble_len = 0
  /\ popped = pushed
  /\ trailer_len > 0
  /\ trailer_len' = IF cfg_continous = 0 THEN trailer_len ELSE trailer_len - 1
  /\ quiet' = IF quiet < TrailerLen THEN quiet + 1 ELSE quiet
  /\ PutOut
  /\ UNCHANGED <<sending, preamble_len, popped, pre>>

\* With cfg_continous the trailer is not counted down; its length is then
\* counted up to TrailerLen only.
TxTrailer ==
  /\ sending = 1
  /\ preamble_len = 0
  /\ popped = pushed
  /\ trailer_len > 0
  /\ trailer_len' = IF cfg_continous = 1 THEN trailer_len ELSE trailer_len - 1
  /\ quiet' = IF quiet < TrailerLen THEN quiet + 1 ELSE quiet
  /\ PutOut
  /\ UNCHANGED <<sending, preamble_len, popped, pre>>

\* Nothing left: the transmitter is turned off.  The loop still puts out a
\* byte, current_data as it happens to be.
TxStop ==
  /\ sending = 1
  /\ preamble_len = 0
  /\ popped = pushed
  /\ trailer_len = 0
  /\ sending' = 0
  /\ PutOut
  /\ UNCHANGED <<preamble_len, trailer_len, popped, pre, quiet>>

TxPadding ==
  /\ sending = 0
  /\ cfg_padding_zero = 1
  /\ PutOut
  /\ UNCHANGED <<sending, preamble_len, trailer_len, popped, pre, quiet>>

EndWork_OnSending ==
  /\ pc = "tx"
  /\ i = n \/ (sending = 0 /\ cfg_padding_zero = 0)
  /\ d_ptt' = sending
  /\ ptt' = IF sending = d_ptt THEN ptt
            ELSE IF sending = 1 THEN "on" ELSE "off"
  /\ pc' = "sched"
  /\ UNCHANGED <<cfg, client, n, i, tx>>

EndWork_OnData ==
  /\ pc = "tx"
  /\ i = n \/ (sending = 0 /\ cfg_padding_zero = 0)
  /\ \/ /\ d_ptt = 0 /\ i # 0
        /\ ptt' = "on"
        /\ d_ptt' = 1
     \/ /\ d_ptt # 0 /\ popped = pushed
        /\ ptt' = "off"
        /\ d_ptt' = 0
     \/ /\ (d_ptt = 0 /\ i = 0) \/ (d_ptt # 0 /\ popped < pushed)
        /\ UNCHANGED radio
  /\ pc' = "sched"
  /\ UNCHANGED <<cfg, client, n, i, tx>>

\* The loop ends, at nbytes or by its break, and work() sets the PTT.
EndWork ==
  /\ pc = "tx"
  /\ i = n \/ (sending = 0 /\ cfg_padding_zero = 0)
  /\ \/ /\ d_ptt = 0 /\ i # 0
        /\ ptt' = "on"
        /\ d_ptt' = 1
     \/ /\ d_ptt # 0 /\ i = 0
        /\ ptt' = "off"
        /\ d_ptt' = 0
     \/ /\ (d_ptt = 0) <=> (i = 0)
        /\ UNCHANGED radio
  /\ pc' = "sched"
  /\ UNCHANGED <<cfg, client, n, i, tx>>

-----------------------------------------------------------------------------
Thread ==
  \/ Dispatch
  \/ TxWrite
  \/ \E k \in WorkBytes : StartWork(k)
  \/ TxPreamble
  \/ TxData
  \/ TxTrailer
  \/ TxStop
  \/ TxPadding
  \/ EndWork

Next == Post \/ Thread

Spec == Init /\ [][Next]_vars

\* The thread of the block runs; nothing makes a client post.
FairSpec == Spec /\ WF_vars(Thread)

-----------------------------------------------------------------------------
(* Properties. *)

\* Every variable keeps its type; what is popped was pushed, and what is
\* pushed belongs to a message that was taken.
TypeOK ==
  /\ cfg_continous \in {0, 1}
  /\ cfg_padding_zero \in {0, 1}
  /\ posted \in 0 .. MaxFrames
  /\ taken \in 0 .. posted
  /\ pc \in {"sched", "push", "tx"}
  /\ n \in Nat
  /\ i \in 0 .. n
  /\ sending \in {0, 1}
  /\ preamble_len \in 0 .. PreambleLen
  /\ trailer_len \in 0 .. TrailerLen
  /\ pushed \in Nat
  /\ popped \in 0 .. pushed
  /\ d_ptt \in {0, 1}
  /\ ptt \in {"none", "on", "off"}
  /\ pre \in 0 .. PreambleLen
  /\ quiet \in 0 .. TrailerLen

\* The busy-wait of ccsds_txwrite is never entered by a client that keeps its
\* backlog within the FIFO, however its messages bunch up before a work().
NeverSpins == pc = "push" => pushed - popped < TxRoom

\* A frame goes out without a gap: no preamble, trailer, padding or stale
\* byte is put out between two bytes of a frame, because a message is pushed
\* whole before the next work().
AtBoundary == \E k \in 0 .. taken : popped = k * FrameLen

NoGapInFrame == [][i' = i + 1 /\ popped' = popped => AtBoundary]_vars

\* No data byte goes out before the whole preamble has, in each burst.
PreambleLeads == [][popped' # popped => pre = PreambleLen]_vars

\* The transmitter is turned off only when every byte has gone out and a
\* whole trailer has followed the last one: a frame that arrives during the
\* trailer starts it afresh.
TrailerCloses ==
  [][sending = 1 /\ sending' = 0
       => popped = pushed /\ quiet = TrailerLen]_vars

\* What work() returned is covered by the PTT: symbols reach the flowgraph
\* with the PTT on, an empty return with the PTT not on.  The uninitialised
\* d_ptt can break this until the first command has been published, not after.
PttKnown == ptt # "none" \/ d_ptt = 0

PttCoversSymbols == pc # "tx" /\ PttKnown => (i > 0 <=> ptt = "on")

\* The PTT is released only when the transmitter is off, all it accepted has
\* gone out, and the trailer has.
PttOffClean ==
  [][ptt = "on" /\ ptt' = "off"
       => sending = 0 /\ popped = pushed /\ quiet = TrailerLen]_vars

\* Every frame posted is transmitted to its last byte.
FramesSent ==
  \A k \in 1 .. MaxFrames : (posted >= k) ~> (popped >= k * FrameLen)

\* Without padding and without a continuous trailer, the PTT is released
\* once the client stops posting.
PttReleased ==
  (ptt = "on" /\ cfg_continous = 0 /\ cfg_padding_zero = 0) ~> (ptt = "off")
=============================================================================

-------------------------- MODULE FecEncodeProofs ---------------------------
(***************************************************************************)
(* The transmitter of FecEncode, for every frame, preamble, trailer and    *)
(* FIFO length and every room the scheduler gives work().                  *)
(***************************************************************************)
EXTENDS FecEncode, TLAPS

-----------------------------------------------------------------------------
(* The inductive invariant, in parts. *)

\* Where the thread stands in the messages it has taken: outside of
\* ccsds_send every one of them has been pushed whole.
PushedInv ==
  /\ pushed <= taken * FrameLen
  /\ pc = "push" => /\ taken > 0
                    /\ (taken - 1) * FrameLen <= pushed
                    /\ pushed < taken * FrameLen
                    /\ sending = 0 => pushed = (taken - 1) * FrameLen
  /\ pc # "push" => pushed = taken * FrameLen

\* The client keeps its promise, and the transmitter that is off is empty.
WaitingInv ==
  /\ posted * FrameLen - popped <= Backlog
  /\ sending = 0 => popped = pushed

\* The counters of ccsds_tx_proc and what has gone out add up.
CountInv ==
  /\ sending = 1 => pre + preamble_len = PreambleLen
  /\ sending = 1 /\ cfg_continous = 0 => trailer_len + quiet = TrailerLen
  /\ sending = 1 /\ cfg_continous = 1 => trailer_len = TrailerLen
  /\ sending = 0 /\ pushed > 0 => quiet = TrailerLen
  /\ sending = 1 => pushed > 0

\* A preamble stands between frames.
PreambleInv == sending = 1 /\ preamble_len > 0 => AtBoundary

\* d_ptt agrees with the last command once it is known, and without padding
\* symbols come from messages only.
PttInv ==
  /\ PttKnown => (d_ptt = 1 <=> ptt = "on")
  /\ PttCoversSymbols
  /\ cfg_padding_zero = 0 /\ (i > 0 \/ ptt = "on") => pushed > 0
  /\ pc = "tx" => n > 0

IInv ==
  /\ TypeOK
  /\ PushedInv
  /\ WaitingInv
  /\ CountInv
  /\ PreambleInv
  /\ PttInv

-----------------------------------------------------------------------------
\* A frame more is a frame length more.
LEMMA OneFrame ==
  \A k \in Nat : /\ (k + 1) * FrameLen = k * FrameLen + FrameLen
                 /\ k * FrameLen \in Nat
  BY LenAssumption

LEMMA InitIInv == Init => IInv
  BY LenAssumption
     DEF Init, IInv, TypeOK, PushedInv, WaitingInv, CountInv, PreambleInv,
         PttInv, PttKnown, PttCoversSymbols

LEMMA TypeStep == TypeOK /\ WaitingInv /\ CountInv /\ [Next]_vars => TypeOK'
<1> SUFFICES ASSUME TypeOK, WaitingInv, CountInv, [Next]_vars PROVE TypeOK'
  OBVIOUS
<1> USE LenAssumption DEF TypeOK, cfg, client, tx, radio
<1>1. CASE Post
  BY <1>1 DEF Post
<1>2. CASE Dispatch
  BY <1>2 DEF Dispatch
<1>3. CASE TxWrite
  BY <1>3 DEF TxWrite
<1>4. ASSUME NEW k \in WorkBytes, StartWork(k) PROVE TypeOK'
  BY <1>4, WorkAssumption DEF StartWork
<1>5. CASE TxPreamble
  BY <1>5 DEF TxPreamble, PutOut, CountInv
<1>6. CASE TxData
  BY <1>6 DEF TxData, PutOut
<1>7. CASE TxTrailer
  BY <1>7 DEF TxTrailer, PutOut
<1>8. CASE TxStop
  BY <1>8 DEF TxStop, PutOut
<1>9. CASE TxPadding
  BY <1>9 DEF TxPadding, PutOut
<1>10. CASE EndWork
  BY <1>10 DEF EndWork
<1>11. CASE UNCHANGED vars
  BY <1>11 DEF vars
<1>12. QED
  BY <1>1, <1>2, <1>3, <1>4, <1>5, <1>6, <1>7, <1>8, <1>9, <1>10, <1>11
     DEF Next, Thread

LEMMA PushedStep == TypeOK /\ PushedInv /\ [Next]_vars => PushedInv'
<1> SUFFICES ASSUME TypeOK, PushedInv, [Next]_vars PROVE PushedInv'
  OBVIOUS
<1> USE LenAssumption DEF TypeOK, PushedInv, cfg, client, tx, radio
<1>1. CASE Post
  BY <1>1 DEF Post
<1>2. CASE Dispatch
  BY <1>2, OneFrame DEF Dispatch
<1>3. CASE TxWrite
  BY <1>3, OneFrame DEF TxWrite
<1>4. ASSUME NEW k \in WorkBytes, StartWork(k) PROVE PushedInv'
  BY <1>4 DEF StartWork
<1>5. CASE TxPreamble \/ TxData \/ TxTrailer \/ TxStop \/ TxPadding
  BY <1>5 DEF TxPreamble, TxData, TxTrailer, TxStop, TxPadding, PutOut
<1>6. CASE EndWork
  BY <1>6 DEF EndWork
<1>7. CASE UNCHANGED vars
  BY <1>7 DEF vars
<1>8. QED
  BY <1>1, <1>2, <1>3, <1>4, <1>5, <1>6, <1>7 DEF Next, Thread

LEMMA WaitingStep ==
  TypeOK /\ PushedInv /\ WaitingInv /\ [Next]_vars => WaitingInv'
<1> SUFFICES ASSUME TypeOK, PushedInv, WaitingInv, [Next]_vars
             PROVE WaitingInv'
  OBVIOUS
<1>0. posted * FrameLen \in Nat
  BY OneFrame, LenAssumption DEF TypeOK
<1> USE LenAssumption DEF TypeOK, WaitingInv, cfg, client, tx, radio
<1>1. CASE Post
  BY <1>1 DEF Post
<1>2. CASE Dispatch
  BY <1>2 DEF Dispatch
<1>3. CASE TxWrite
  BY <1>3 DEF TxWrite
<1>4. ASSUME NEW k \in WorkBytes, StartWork(k) PROVE WaitingInv'
  BY <1>4 DEF StartWork
<1>5. CASE TxPreamble \/ TxTrailer \/ TxStop \/ TxPadding
  BY <1>5 DEF TxPreamble, TxTrailer, TxStop, TxPadding, PutOut
<1>6. CASE TxData
  BY <1>0, <1>6 DEF TxData, PutOut
<1>7. CASE EndWork
  BY <1>7 DEF EndWork
<1>8. CASE UNCHANGED vars
  BY <1>8 DEF vars
<1>9. QED
  BY <1>1, <1>2, <1>3, <1>4, <1>5, <1>6, <1>7, <1>8 DEF Next, Thread

LEMMA CountStep ==
  TypeOK /\ WaitingInv /\ CountInv /\ [Next]_vars => CountInv'
<1> SUFFICES ASSUME TypeOK, WaitingInv, CountInv, [Next]_vars PROVE CountInv'
  OBVIOUS
<1> USE LenAssumption DEF TypeOK, CountInv, cfg, client, tx, radio
<1>1. CASE Post \/ Dispatch \/ EndWork \/ UNCHANGED vars
  BY <1>1 DEF Post, Dispatch, EndWork, vars
<1>2. CASE TxWrite
  BY <1>2 DEF TxWrite
<1>3. ASSUME NEW k \in WorkBytes, StartWork(k) PROVE CountInv'
  BY <1>3 DEF StartWork
<1>4. CASE TxPreamble
  BY <1>4 DEF TxPreamble, PutOut
<1>5. CASE TxData
  BY <1>5 DEF TxData, PutOut
<1>6. CASE TxTrailer
  BY <1>6 DEF TxTrailer, PutOut
<1>7. CASE TxStop
  BY <1>7 DEF TxStop, PutOut
<1>8. CASE TxPadding
  BY <1>8 DEF TxPadding, PutOut
<1>9. QED
  BY <1>1, <1>2, <1>3, <1>4, <1>5, <1>6, <1>7, <1>8 DEF Next, Thread

\* The boundary popped stands on stays one while no byte is popped.
LEMMA BoundaryStays ==
  ASSUME TypeOK, AtBoundary, popped' = popped, taken' \in Nat, taken' >= taken
  PROVE  AtBoundary'
  BY DEF TypeOK, AtBoundary

LEMMA PreambleStep ==
  TypeOK /\ PushedInv /\ WaitingInv /\ PreambleInv /\ [Next]_vars
    => PreambleInv'
<1> SUFFICES ASSUME TypeOK, PushedInv, WaitingInv, PreambleInv, [Next]_vars
             PROVE PreambleInv'
  OBVIOUS
<1> USE LenAssumption DEF cfg, client, tx, radio
<1>1. taken' \in Nat /\ taken' >= taken
  BY DEF TypeOK, Next, Thread, vars, Post, Dispatch, TxWrite, StartWork,
         TxPreamble, TxData, TxTrailer, TxStop, TxPadding, EndWork, PutOut
<1>2. CASE TxWrite /\ sending = 0
  \* Nothing is being sent: the FIFO is empty, and this is the first byte of
  \* the frame.
  <2>1. popped = (taken - 1) * FrameLen
    BY <1>2 DEF TxWrite, WaitingInv, PushedInv
  <2>2. taken - 1 \in 0 .. taken
    BY <1>2 DEF TxWrite, PushedInv, TypeOK
  <2>3. AtBoundary
    BY <2>1, <2>2 DEF AtBoundary
  <2>4. popped' = popped
    BY <1>2 DEF TxWrite
  <2>5. QED
    BY <1>1, <2>3, <2>4, BoundaryStays DEF PreambleInv
<1>3. CASE TxData
  BY <1>3 DEF TxData, PreambleInv
<1>4. CASE ~(TxWrite /\ sending = 0) /\ ~TxData
  <2>1. SUFFICES ASSUME sending' = 1, preamble_len' > 0
                 PROVE  AtBoundary'
    BY DEF PreambleInv
  <2>2. popped' = popped /\ sending = 1 /\ preamble_len > 0
    BY <1>4, <2>1
       DEF TypeOK, Next, Thread, vars, Post, Dispatch, TxWrite, StartWork,
           TxPreamble, TxTrailer, TxStop, TxPadding, EndWork, PutOut
  <2>3. QED
    BY <1>1, <2>2, BoundaryStays DEF PreambleInv
<1>5. QED
  BY <1>2, <1>3, <1>4

LEMMA PttStep ==
  TypeOK /\ CountInv /\ PttInv /\ [Next]_vars => PttInv'
<1> SUFFICES ASSUME TypeOK, CountInv, PttInv, [Next]_vars PROVE PttInv'
  OBVIOUS
<1> USE DEF TypeOK, PttInv, PttKnown, PttCoversSymbols, cfg, client, tx, radio
<1>1. CASE Post \/ UNCHANGED vars
  BY <1>1 DEF Post, vars
<1>2. CASE Dispatch
  BY <1>2 DEF Dispatch
<1>3. CASE TxWrite
  BY <1>3 DEF TxWrite
<1>4. ASSUME NEW k \in WorkBytes, StartWork(k) PROVE PttInv'
  BY <1>4, WorkAssumption DEF StartWork
<1>5. CASE TxPreamble \/ TxData \/ TxTrailer \/ TxStop
  BY <1>5 DEF TxPreamble, TxData, TxTrailer, TxStop, PutOut, CountInv
<1>6. CASE TxPadding
  BY <1>6 DEF TxPadding, PutOut
<1>7. CASE EndWork
  BY <1>7 DEF EndWork
<1>8. QED
  BY <1>1, <1>2, <1>3, <1>4, <1>5, <1>6, <1>7 DEF Next, Thread

THEOREM Inductive == Spec => []IInv
<1>1. IInv /\ [Next]_vars => IInv'
  BY TypeStep, PushedStep, WaitingStep, CountStep, PreambleStep, PttStep
     DEF IInv
<1>2. QED
  BY InitIInv, <1>1, PTL DEF Spec

-----------------------------------------------------------------------------
(* The theorems. *)

\* Every variable of the transmitter keeps its type, for all its parameters.
THEOREM TypeCorrect == Spec => []TypeOK
  BY Inductive, PTL DEF IInv

\* A client whose backlog fits the FIFO never meets the endless wait of
\* ccsds_txwrite.
THEOREM NoSpin ==
  ASSUME Backlog <= TxRoom
  PROVE  Spec => []NeverSpins
<1>1. IInv => NeverSpins
  <2> SUFFICES ASSUME IInv, pc = "push" PROVE pushed - popped < TxRoom
    BY DEF NeverSpins
  <2>1. taken * FrameLen <= posted * FrameLen
    BY LenAssumption DEF IInv, TypeOK
  <2>2. taken * FrameLen \in Nat /\ posted * FrameLen \in Nat
    BY OneFrame, LenAssumption DEF IInv, TypeOK
  <2>3. pushed < taken * FrameLen /\ posted * FrameLen - popped <= Backlog
    BY DEF IInv, PushedInv, WaitingInv
  <2>4. QED
    BY <2>1, <2>2, <2>3, LenAssumption DEF IInv, TypeOK
<1>2. QED
  BY <1>1, Inductive, PTL

\* No step of ccsds_tx_proc puts anything but its next byte inside a frame.
THEOREM GapFree == Spec => NoGapInFrame
<1>1. IInv /\ [Next]_vars
        => [i' = i + 1 /\ popped' = popped => AtBoundary]_vars
  <2> SUFFICES ASSUME IInv, [Next]_vars, i' = i + 1, popped' = popped
               PROVE  AtBoundary
    OBVIOUS
  <2>1. TxPreamble \/ TxTrailer \/ TxStop \/ TxPadding
    BY DEF IInv, TypeOK, Next, Thread, vars, Post, Dispatch, TxWrite,
           StartWork, TxData, EndWork, PutOut
  <2>2. CASE TxPreamble
    BY <2>2 DEF TxPreamble, IInv, PreambleInv
  <2>3. CASE TxTrailer \/ TxStop \/ TxPadding
    <3>1. popped = taken * FrameLen
      BY <2>3
         DEF TxTrailer, TxStop, TxPadding, PutOut, IInv, PushedInv, WaitingInv
    <3>2. taken \in 0 .. taken
      BY DEF IInv, TypeOK
    <3>3. QED
      BY <3>1, <3>2 DEF AtBoundary
  <2>4. QED
    BY <2>1, <2>2, <2>3
<1>2. QED
  BY <1>1, Inductive, PTL DEF Spec, NoGapInFrame

\* The preamble of a burst is complete when its first data byte goes out.
THEOREM PreambleFirst == Spec => PreambleLeads
<1>1. IInv /\ [Next]_vars => [popped' # popped => pre = PreambleLen]_vars
  <2> SUFFICES ASSUME IInv, [Next]_vars, popped' # popped
               PROVE  pre = PreambleLen
    OBVIOUS
  <2>1. TxData
    BY DEF Next, Thread, vars, Post, Dispatch, TxWrite, StartWork, TxPreamble,
           TxTrailer, TxStop, TxPadding, EndWork, PutOut, tx
  <2>2. QED
    BY <2>1, LenAssumption DEF TxData, IInv, TypeOK, CountInv
<1>2. QED
  BY <1>1, Inductive, PTL DEF Spec, PreambleLeads

\* The carrier goes down on an empty FIFO and after a whole trailer.
THEOREM TrailerLast == Spec => TrailerCloses
<1>1. IInv /\ [Next]_vars
        => [sending = 1 /\ sending' = 0
              => popped = pushed /\ quiet = TrailerLen]_vars
  <2> SUFFICES ASSUME IInv, [Next]_vars, sending = 1, sending' = 0
               PROVE  popped = pushed /\ quiet = TrailerLen
    OBVIOUS
  <2>1. TxStop
    BY DEF Next, Thread, vars, Post, Dispatch, TxWrite, StartWork, TxPreamble,
           TxData, TxTrailer, TxPadding, EndWork, PutOut, tx
  <2>2. QED
    BY <2>1, LenAssumption DEF TxStop, IInv, TypeOK, CountInv
<1>2. QED
  BY <1>1, Inductive, PTL DEF Spec, TrailerCloses

\* Once a command has been published, or if d_ptt happened to be zero, the
\* PTT is on for exactly the returns of work() that carry symbols.
THEOREM PttCovers == Spec => []PttCoversSymbols
  BY Inductive, PTL DEF IInv, PttInv

\* The PTT is released on an empty, silent transmitter that has sent its
\* trailer.
THEOREM PttClean == Spec => PttOffClean
<1>1. IInv /\ [Next]_vars
        => [ptt = "on" /\ ptt' = "off"
              => sending = 0 /\ popped = pushed /\ quiet = TrailerLen]_vars
  <2> SUFFICES ASSUME IInv, [Next]_vars, ptt = "on", ptt' = "off"
               PROVE  sending = 0 /\ popped = pushed /\ quiet = TrailerLen
    OBVIOUS
  <2>1. EndWork /\ i = 0
    BY DEF Next, Thread, vars, Post, Dispatch, TxWrite, StartWork, TxPreamble,
           TxData, TxTrailer, TxStop, TxPadding, EndWork, PutOut, radio
  <2>2. sending = 0 /\ cfg_padding_zero = 0
    BY <2>1 DEF EndWork, IInv, TypeOK, PttInv
  <2>3. QED
    BY <2>2 DEF IInv, TypeOK, WaitingInv, CountInv, PttInv
<1>2. QED
  BY <1>1, Inductive, PTL DEF Spec, PttOffClean
=============================================================================

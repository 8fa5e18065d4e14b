-------------------------- MODULE LilacProxyProofs --------------------------
(***************************************************************************)
(* The threads of LilacProxy, for every number of packets, of faults of    *)
(* the network and of tries to connect.                                    *)
(***************************************************************************)
EXTENDS LilacProxy, TLAPS

-----------------------------------------------------------------------------
\* The packet that has been taken and not sent is in one place at most.
OnePlace ==
  \/ hand = 0 /\ ReSendBuf = 0 /\ taken = Len(sent)
  \/ hand = 0 /\ ReSendBuf = taken /\ taken = Len(sent) + 1
  \/ hand = taken /\ ReSendBuf = 0 /\ taken = Len(sent) + 1

\* The sender has a packet in its hand from select to the end of send, and a
\* reason to select is still one when select returns.
SenderInv ==
  /\ s_pc \in {"top", "select"} => hand = 0
  /\ s_pc = "send" => hand # 0
  /\ s_pc = "select" => HasData

\* Failed attempts are counted only while StateNow is 1, and it leaves 1 when
\* there are too many.
LinkInv ==
  /\ l_pc \in {"connect", "connected", "failed"} => StateNow = 1
  /\ StateNow = 1 => TryTimeOut <= MaxTries

Ordered == sent = [k \in 1 .. Len(sent) |-> k]

IInv ==
  /\ TypeOK
  /\ Ordered
  /\ OnePlace
  /\ SenderInv
  /\ LinkInv

-----------------------------------------------------------------------------
\* The next number behind the numbers sent so far.
LEMMA AppendNext ==
  ASSUME NEW S, NEW s \in Seq(S), s = [k \in 1 .. Len(s) |-> k],
         NEW p \in S, p = Len(s) + 1
  PROVE  /\ Len(Append(s, p)) = Len(s) + 1
         /\ Append(s, p) = [k \in 1 .. Len(Append(s, p)) |-> k]
<1>1. Len(Append(s, p)) = Len(s) + 1
  OBVIOUS
<1>2. Append(s, p) = [k \in 1 .. Len(s) + 1 |-> IF k = Len(s) + 1 THEN p ELSE s[k]]
  OBVIOUS
<1>3. \A k \in 1 .. Len(s) + 1 : (IF k = Len(s) + 1 THEN p ELSE s[k]) = k
  OBVIOUS
<1>4. QED
  BY <1>1, <1>2, <1>3

LEMMA InitIInv == Init => IInv
BY ConstantsAssumption
   DEF Init, IInv, TypeOK, Ordered, OnePlace, SenderInv, LinkInv, None, Threads

\* What nobody touches stays true.
LEMMA Stays ==
  ASSUME Ordered, OnePlace, SenderInv, LinkInv,
         UNCHANGED <<posted, sendVars, linkVars>>
  PROVE  Ordered' /\ OnePlace' /\ SenderInv' /\ LinkInv'
<1> USE DEF sendVars, linkVars
<1>1. Ordered'
  BY DEF Ordered
<1>2. OnePlace' /\ SenderInv' /\ LinkInv'
  BY DEF OnePlace, SenderInv, LinkInv, HasData
<1>3. QED
  BY <1>1, <1>2

\* What the sender does with the packet.
LEMMA SenderStep == IInv /\ Sender => IInv'
<1> SUFFICES ASSUME IInv, Sender PROVE IInv'
  OBVIOUS
<1>1. UNCHANGED <<ui, told, posted, sock, StateNow, TryTimeOut, l_pc, x_pc, client, faults>>
  BY DEF Sender, Look, SelectFails, Select, Send, SendError, SenderDies, SenderStops,
         linkVars, listenVars
<1>2. CASE Send
  <2>1. hand = Len(sent) + 1 /\ hand \in 1 .. MaxPackets
    BY <1>2, ConstantsAssumption DEF Send, IInv, TypeOK, OnePlace, SenderInv
  <2>2. sent' \in Seq(1 .. MaxPackets) /\ Len(sent') = Len(sent) + 1
    BY <1>2, <2>1 DEF Send, IInv, TypeOK
  <2>3. sent \in Seq(1 .. MaxPackets) /\ sent' = Append(sent, hand)
    BY <1>2 DEF Send, IInv, TypeOK
  <2>4. Ordered'
    BY <2>1, <2>3, AppendNext DEF IInv, Ordered
  <2>5. TypeOK'
    BY <1>1, <1>2, <2>2 DEF Send, IInv, TypeOK
  <2>6. OnePlace' /\ SenderInv'
    BY <1>2, <2>1, <2>2 DEF Send, IInv, TypeOK, OnePlace, SenderInv
  <2>7. LinkInv'
    BY <1>1 DEF IInv, LinkInv
  <2>8. QED
    BY <2>4, <2>5, <2>6, <2>7 DEF IInv
<1>3. CASE ~Send
  <2>1. sent' = sent
    BY <1>3 DEF Sender, Look, SelectFails, Select, SendError, SenderDies, SenderStops
  <2>2. /\ s_pc' \in {"top", "select", "send", "dead"}
        /\ taken' \in 0 .. posted /\ hand' \in 0 .. taken' /\ ReSendBuf' \in 0 .. taken'
        /\ OnePlace' /\ SenderInv'
    <3> USE <1>1, <2>1 DEF IInv, TypeOK, OnePlace, SenderInv, HasData
    <3>1. CASE Look
      BY <3>1 DEF Look
    <3>2. CASE SelectFails
      BY <3>2 DEF SelectFails
    <3>3. CASE Select
      BY <3>3 DEF Select
    <3>4. CASE SendError
      BY <3>4 DEF SendError
    <3>5. CASE SenderDies \/ SenderStops
      BY <3>5 DEF SenderDies, SenderStops
    <3>6. QED
      BY <1>3, <3>1, <3>2, <3>3, <3>4, <3>5 DEF Sender
  <2>3. TypeOK'
    BY <1>1, <2>1, <2>2 DEF IInv, TypeOK
  <2>4. Ordered' /\ LinkInv'
    BY <1>1, <2>1 DEF IInv, Ordered, LinkInv
  <2>5. QED
    BY <2>2, <2>3, <2>4 DEF IInv
<1>4. QED
  BY <1>2, <1>3

\* The connection's thread and the server move nothing of the sender's.
LEMMA LinkStep == IInv /\ (Link \/ ServerCloses) => IInv'
<1> SUFFICES ASSUME IInv, Link \/ ServerCloses PROVE IInv'
  OBVIOUS
<1> USE ConstantsAssumption DEF linkElse, sendVars, listenVars
<1>1. UNCHANGED <<sent, taken, hand, ReSendBuf, s_pc, posted>>
  BY DEF Link, Wake, CreateSocket, Connect, Connected, ConnectFails, GiveUpOrRetry,
         ServerCloses, AwaitData, DataOrTimeout, RecvEnds, ForgetSocket, BackToIdle,
         LinkStops, LinkEnds
<1>2. Ordered' /\ OnePlace' /\ SenderInv'
  BY <1>1 DEF IInv, Ordered, OnePlace, SenderInv, HasData
<1>3. TypeOK' /\ LinkInv'
  <2> USE DEF IInv, TypeOK, LinkInv, None
  <2>1. CASE Wake
    BY <2>1 DEF Wake
  <2>2. CASE CreateSocket \/ Connect \/ Connected
    BY <2>2 DEF CreateSocket, Connect, Connected
  <2>3. CASE ConnectFails
    BY <2>3 DEF ConnectFails
  <2>4. CASE GiveUpOrRetry
    BY <2>4 DEF GiveUpOrRetry
  <2>5. CASE ServerCloses
    BY <2>5 DEF ServerCloses
  <2>6. CASE AwaitData \/ DataOrTimeout \/ RecvEnds
    BY <2>6 DEF AwaitData, DataOrTimeout, RecvEnds
  <2>7. CASE ForgetSocket \/ BackToIdle
    BY <2>7 DEF ForgetSocket, BackToIdle
  <2>8. CASE LinkStops \/ LinkEnds
    BY <2>8 DEF LinkStops, LinkEnds
  <2>9. QED
    BY <2>1, <2>2, <2>3, <2>4, <2>5, <2>6, <2>7, <2>8 DEF Link
<1>4. QED
  BY <1>1, <1>2, <1>3 DEF IInv

\* GNU Radio's side posts packets and does no more to the others.
LEMMA ListenerStep == IInv /\ (Listener \/ ClientAsks \/ ClientHangsUp) => IInv'
<1> SUFFICES ASSUME IInv, Listener \/ ClientAsks \/ ClientHangsUp PROVE IInv'
  OBVIOUS
<1> USE ConstantsAssumption DEF listenElse, sendVars, linkVars
<1>1. /\ UNCHANGED <<ui, told, sent, taken, hand, ReSendBuf, s_pc, sock, StateNow,
                     TryTimeOut, l_pc, faults>>
      /\ posted' \in posted .. MaxPackets
      /\ x_pc' \in {"bind", "listen", "accept", "serve", "read", "dead"}
      /\ client' \in {"away", "asking", "joined", "gone"}
  BY DEF IInv, TypeOK, Listener, Bind, AwaitClient, NoClient, Accept, AwaitRead,
         NoRead, Receive, ClientLeft, ListenerEnds, ClientAsks, ClientHangsUp
<1>2. TypeOK'
  BY <1>1 DEF IInv, TypeOK
<1>3. Ordered' /\ OnePlace' /\ LinkInv'
  BY <1>1 DEF IInv, Ordered, OnePlace, LinkInv
<1>4. SenderInv'
  BY <1>1 DEF IInv, TypeOK, SenderInv, HasData
<1>5. QED
  BY <1>2, <1>3, <1>4 DEF IInv

\* The window starts everything anew, and stops it by its flags.
LEMMA WindowStep == IInv /\ (Start \/ Stop \/ StopNext \/ Stopped) => IInv'
<1> SUFFICES ASSUME IInv, Start \/ Stop \/ StopNext \/ Stopped PROVE IInv'
  OBVIOUS
<1>1. CASE Start
  <2>1. ui' = "running" /\ told' = {} /\ faults' = faults /\ posted' = 0 /\ sent' = <<>>
    BY <1>1 DEF Start
  <2>2. TypeOK'
    BY <1>1, <2>1, ConstantsAssumption DEF Start, IInv, TypeOK, None, Threads
  <2>3. Ordered'
    BY <2>1 DEF Ordered
  <2>4. OnePlace' /\ SenderInv' /\ LinkInv'
    BY <1>1, <2>1, ConstantsAssumption DEF Start, OnePlace, SenderInv, LinkInv
  <2>5. QED
    BY <2>2, <2>3, <2>4 DEF IInv
<1>2. CASE ~Start
  <2>1. /\ UNCHANGED <<posted, sendVars, linkVars, listenVars, faults>>
        /\ ui' \in {"stopped", "running", "stopping"}
        /\ told' \in SUBSET Threads
    BY <1>2 DEF Stop, StopNext, Stopped, IInv, TypeOK, Threads
  <2>2. TypeOK'
    BY <2>1 DEF IInv, TypeOK, sendVars, linkVars, listenVars
  <2>3. Ordered' /\ OnePlace' /\ SenderInv' /\ LinkInv'
    BY <2>1, Stays DEF IInv
  <2>4. QED
    BY <2>2, <2>3 DEF IInv
<1>3. QED
  BY <1>1, <1>2

\* Every step of the proxy keeps the inductive invariant.
THEOREM Inductive == Spec => []IInv
<1>1. IInv /\ UNCHANGED vars => IInv'
  <2> SUFFICES ASSUME IInv, UNCHANGED vars PROVE IInv'
    OBVIOUS
  <2>1. TypeOK'
    BY DEF IInv, TypeOK, vars, sendVars, linkVars, listenVars
  <2>2. UNCHANGED <<posted, sendVars, linkVars>>
    BY DEF vars
  <2>3. QED
    BY <2>1, <2>2, Stays DEF IInv
<1>2. IInv /\ [Next]_vars => IInv'
  BY <1>1, SenderStep, LinkStep, ListenerStep, WindowStep DEF Next
<1>3. QED
  BY InitIInv, <1>2, PTL DEF Spec

\* The type invariant of the proxy: the sender never takes from an empty queue,
\* and failed attempts are counted up to MaxTries + 1.
THEOREM TypeCorrect == Spec => []TypeOK
<1>1. IInv => TypeOK
  BY DEF IInv
<1>2. QED
  BY <1>1, Inductive, PTL

\* Packets are sent in order and once, and at most one is taken and not sent,
\* whatever the connection does under the sender.
THEOREM ConservedAlways == Spec => []Conserved
<1>1. IInv => Conserved
  <2> SUFFICES ASSUME IInv PROVE Conserved
    OBVIOUS
  <2>1. Len(sent) \in Nat
    BY DEF IInv, TypeOK
  <2>2. {hand, ReSendBuf} \ {0} = Len(sent) + 1 .. taken /\ taken <= Len(sent) + 1
    BY <2>1 DEF IInv, OnePlace
  <2>3. QED
    BY <2>2 DEF IInv, Ordered, Conserved
<1>2. QED
  BY <1>1, Inductive, PTL
=============================================================================

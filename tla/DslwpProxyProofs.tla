-------------------------- MODULE DslwpProxyProofs --------------------------
(***************************************************************************)
(* The DSLWP proxy, for every number of readings, starts and faults and    *)
(* every length of the websocket's queue.                                  *)
(***************************************************************************)
EXTENDS DslwpProxy, TLAPS

-----------------------------------------------------------------------------
(* The inductive invariant.                                                *)

\* What a reading shows when it is handed over, as HandedExactly has it.
Right(v, i) == IF i > early THEN v = i ELSE v \in {early, early + 1}

\* What waits in the buffer is what has not been handed over.  Except while the
\* thread drains it, only readings from before there was a sender wait, and as
\* long as there is none they all refer to the one dictionary there is.
BufInv ==
  /\ Len(handed) + Len(data_buff) = puts
  /\ \A k \in 1 .. Len(data_buff) : Right(raw_data[data_buff[k]], Len(handed) + k)
  /\ \A k \in 1 .. Len(handed) : Right(handed[k], k)
  /\ r_pc # "drain" => data_buff = <<>> \/ puts = early
  /\ r_pc = "put" => puts < MaxData
  /\ sender = "none" =>
       /\ puts = early /\ handed = <<>> /\ r_pc # "drain"
       /\ \A k \in 1 .. Len(data_buff) : data_buff[k] = info

\* No thread runs before the first start and after a stop, and only start_proxy
\* has a moment without a sender.
WindowInv ==
  /\ ui = "stopped" => r_pc = "dead"
  /\ info = 0 => r_pc = "dead" /\ puts = 0
  /\ sender = "none" => info = 0 \/ ui = "starting"

\* A thread has an item where it is about to use one, the caller is in the drain
\* it has the lock for, and puts the newest only where there is room.
WsInv ==
  /\ lock = "caller" => call = "drain"
  /\ call # "idle" => item # 0
  /\ drain = "write" => got # 0
  /\ call = "put" => Len(queue) < MaxQueue

\* The numbers ascend from what was written over what a thread holds to what
\* waits, and to what the caller brings.
WsOrder ==
  /\ \A i, j \in 1 .. Len(written) : i < j => written[i] < written[j]
  /\ \A i, j \in 1 .. Len(queue) : i < j => queue[i] < queue[j]
  /\ \A i \in 1 .. Len(written), j \in 1 .. Len(queue) : written[i] < queue[j]
  /\ got # 0 => /\ \A i \in 1 .. Len(written) : written[i] < got
                /\ \A j \in 1 .. Len(queue) : got < queue[j]
  /\ item # 0 => /\ \A i \in 1 .. Len(written) : written[i] < item
                 /\ \A j \in 1 .. Len(queue) : queue[j] < item
                 /\ got < item

\* None of them has still to be handed over.
WsBound ==
  /\ \A i \in 1 .. Len(written) : written[i] <= Len(handed)
  /\ \A j \in 1 .. Len(queue) : queue[j] <= Len(handed)
  /\ got <= Len(handed) /\ item <= Len(handed)

\* Items the socket's thread has taken and not sent.
Holds == IF s_pc = "send" THEN 1 ELSE 0

\* As long as the server has not closed, what is sent, held and queued are the
\* items of this sender without a gap.
SkInv ==
  /\ s_pc \in {"send", "answer"} => data # 0
  /\ sent = [k \in 1 .. Len(sent) |-> base + k]
  /\ skt # "shut" =>
       /\ ReSendBuf = 0
       /\ s_pc = "send" => data = base + Len(sent) + 1
       /\ \A k \in 1 .. Len(SendQueue) : SendQueue[k] = base + Len(sent) + Holds + k
       /\ sender = "new" /\ protocol = "socket" =>
            Len(handed) = base + Len(sent) + Holds + Len(SendQueue)
  /\ protocol = "websocket" => sent = <<>> /\ SendQueue = <<>> /\ s_pc = "none"

IInv == TypeOK /\ BufInv /\ WindowInv /\ WsInv /\ WsOrder /\ WsBound /\ SkInv

-----------------------------------------------------------------------------
(* Sequences.                                                              *)

LEMMA EmptyFacts ==
  ASSUME NEW S
  PROVE  <<>> \in Seq(S) /\ Len(<<>>) = 0
  OBVIOUS

LEMMA AppendFacts ==
  ASSUME NEW S, NEW s \in Seq(S), NEW x \in S
  PROVE  /\ Append(s, x) \in Seq(S)
         /\ Len(s) \in Nat /\ Len(Append(s, x)) = Len(s) + 1
         /\ \A k \in 1 .. Len(s) : Append(s, x)[k] = s[k]
         /\ Append(s, x)[Len(s) + 1] = x
  OBVIOUS

LEMMA TailFacts ==
  ASSUME NEW S, NEW s \in Seq(S), s # <<>>
  PROVE  /\ Tail(s) \in Seq(S) /\ Head(s) \in S /\ Head(s) = s[1]
         /\ Len(s) \in Nat \ {0} /\ Len(Tail(s)) = Len(s) - 1
         /\ \A k \in 1 .. Len(s) - 1 : Tail(s)[k] = s[k + 1]
  OBVIOUS

LEMMA ElementFacts ==
  ASSUME NEW S, NEW s \in Seq(S)
  PROVE  /\ Len(s) \in Nat
         /\ \A k \in 1 .. Len(s) : s[k] \in S
         /\ DOMAIN s = 1 .. Len(s)
  OBVIOUS

-----------------------------------------------------------------------------
(* What a step leaves alone stays as it was.                               *)

LEMMA BufStays ==
  ASSUME BufInv, UNCHANGED <<bufVars, r_pc>>
  PROVE  BufInv'
BY DEF BufInv, Right, bufVars

LEMMA WsStays ==
  ASSUME WsInv, WsOrder, UNCHANGED wsVars
  PROVE  WsInv' /\ WsOrder'
BY DEF WsInv, WsOrder, wsVars, callVars, startVars, drainVars

LEMMA BoundStays ==
  ASSUME WsBound, UNCHANGED wsVars, handed' = handed
  PROVE  WsBound'
BY DEF WsBound, wsVars, callVars, startVars, drainVars

LEMMA SkStays ==
  ASSUME SkInv, UNCHANGED <<skVars, base, handed, sender, protocol>>
  PROVE  SkInv'
BY DEF SkInv, Holds, skVars, exchangeVars

LEMMA WsTypeStays ==
  ASSUME WsTypeOK(Item), UNCHANGED wsVars
  PROVE  WsTypeOK(Item)'
BY DEF WsTypeOK, wsVars, callVars, startVars, drainVars, Item

LEMMA SkTypeStays ==
  ASSUME SkTypeOK(Item), UNCHANGED skVars
  PROVE  SkTypeOK(Item)'
BY DEF SkTypeOK, skVars, exchangeVars, Item

LEMMA GrcTypeStays ==
  ASSUME GrcTypeOK, UNCHANGED grcVars
  PROVE  GrcTypeOK'
BY DEF GrcTypeOK, grcVars, bufVars

-----------------------------------------------------------------------------
LEMMA InitIInv == Init => IInv
<1> SUFFICES ASSUME Init PROVE IInv
  OBVIOUS
<1> USE GrcAssumption, MaxFaultsAssumption, MaxQueueAssumption
<1>1. TypeOK
  <2>1. GrcTypeOK
    <3>1. data_buff \in Seq(1 .. MaxStarts) /\ handed \in Seq(1 .. MaxData)
      BY EmptyFacts DEF Init, GrcInit
    <3>2. raw_data \in [1 .. MaxStarts -> 0 .. MaxData]
      BY DEF Init, GrcInit
    <3>3. puts \in 0 .. MaxData /\ early \in 0 .. puts /\ info \in 0 .. MaxStarts
      BY DEF Init, GrcInit
    <3>4. QED
      BY <3>1, <3>2, <3>3, Zenon DEF Init, GrcInit, GrcTypeOK
  <2>2. WsTypeOK(Item)
    <3>1. queue \in Seq(Item) /\ written \in Seq(Item) /\ Len(queue) = 0
      BY EmptyFacts DEF Init, WsInit
    <3>2. Len(queue) <= MaxQueue
      BY <3>1
    <3>3. QED
      BY <3>1, <3>2, Zenon DEF Init, WsInit, WsTypeOK
  <2>3. SkTypeOK(Item)
    <3>1. SendQueue \in Seq(Item) /\ sent \in Seq(Item)
      BY EmptyFacts DEF Init, SkInit
    <3>2. QED
      BY <3>1 DEF Init, SkInit, SkTypeOK
  <2>4. QED
    BY <2>1, <2>2, <2>3 DEF Init, TypeOK
<1>2. BufInv /\ WindowInv
  BY DEF Init, GrcInit, BufInv, WindowInv
<1>3. WsInv /\ WsOrder /\ WsBound
  BY DEF Init, GrcInit, WsInit, WsInv, WsOrder, WsBound
<1>4. SkInv
  BY DEF Init, GrcInit, SkInit, SkInv
<1>5. QED
  BY <1>1, <1>2, <1>3, <1>4 DEF IInv

\* A reading is put into the buffer.
LEMMA PutStep ==
  ASSUME IInv, Put, UNCHANGED otherThanGrc
  PROVE  GrcTypeOK' /\ BufInv' /\ WindowInv'
<1> USE GrcAssumption
<1>1. /\ GrcTypeOK /\ BufInv /\ WindowInv
      /\ info \in 1 .. MaxStarts /\ puts < MaxData
      /\ data_buff \in Seq(1 .. MaxStarts) /\ puts \in Nat /\ early \in 0 .. puts
      /\ Len(handed) \in Nat /\ Len(data_buff) \in Nat
      /\ Len(handed) + Len(data_buff) = puts
  <2>1. GrcTypeOK /\ BufInv /\ WindowInv /\ r_pc = "put"
    BY DEF IInv, TypeOK, Put
  <2>2. info \in 1 .. MaxStarts
    BY <2>1 DEF GrcTypeOK, WindowInv
  <2>3. /\ data_buff \in Seq(1 .. MaxStarts) /\ handed \in Seq(1 .. MaxData)
        /\ puts \in Nat /\ early \in 0 .. puts
    BY <2>1 DEF GrcTypeOK
  <2>4. puts < MaxData /\ Len(handed) + Len(data_buff) = puts
    BY <2>1 DEF BufInv
  <2>5. Len(handed) \in Nat /\ Len(data_buff) \in Nat
    BY <2>3, ElementFacts
  <2>6. QED
    BY <2>1, <2>2, <2>3, <2>4, <2>5
<1>2. /\ puts' = puts + 1
      /\ raw_data' = [raw_data EXCEPT ![info] = puts + 1]
      /\ data_buff' = Append(data_buff, info)
      /\ early' = (IF sender = "none" THEN puts + 1 ELSE early)
      /\ UNCHANGED <<handed, info, sender, grc_stop, connected, asking, ui>>
      /\ r_pc' = (IF sender = "none" THEN "select" ELSE "drain")
  BY DEF Put, otherThanGrc
<1>3. /\ data_buff' \in Seq(1 .. MaxStarts) /\ Len(data_buff') = Len(data_buff) + 1
      /\ \A k \in 1 .. Len(data_buff) : data_buff'[k] = data_buff[k]
      /\ data_buff'[Len(data_buff) + 1] = info
  BY <1>1, <1>2, AppendFacts
<1>4. \A d \in 1 .. MaxStarts : raw_data'[d] = IF d = info THEN puts + 1 ELSE raw_data[d]
  BY <1>1, <1>2 DEF GrcTypeOK
<1>5. GrcTypeOK'
  BY <1>1, <1>2, <1>3 DEF GrcTypeOK
<1>6. \A k \in 1 .. Len(data_buff) : data_buff[k] \in 1 .. MaxStarts
  BY <1>1, ElementFacts
<1>7. \A k \in 1 .. Len(data_buff') : Right(raw_data[data_buff[k]], Len(handed) + k)'
  <2> SUFFICES ASSUME NEW k \in 1 .. Len(data_buff')
               PROVE  Right(raw_data[data_buff[k]], Len(handed) + k)'
    BY <1>2
  <2>1. CASE k = Len(data_buff) + 1
    <3>1. raw_data'[data_buff'[k]] = puts + 1 
      BY <2>1, <1>1, <1>3, <1>4
    <3>2. Len(handed') = Len(handed) /\ early' \in {early, puts + 1}
      BY <1>2
    <3>3. Len(handed') + k = puts + 1
      BY <2>1, <3>2, <1>1
    <3>5. early' <= puts \/ early' = puts + 1
      BY <3>2, <1>1
    <3>6. CASE early' <= puts
      <4>1. Len(handed') + k > early'
        BY <3>2, <3>3, <3>6, <1>1
      <4>2. QED
        BY <4>1, <3>1, <3>3 DEF Right
    <3>7. CASE early' = puts + 1
      BY <3>1, <3>3, <3>7, <1>1 DEF Right
    <3>8. QED
      BY <3>5, <3>6, <3>7
  <2>2. CASE k # Len(data_buff) + 1 /\ sender = "none"
    BY <2>2, <1>1, <1>2, <1>3, <1>4 DEF Right, BufInv
  <2>3. CASE k # Len(data_buff) + 1 /\ sender # "none"
    <3>1. k \in 1 .. Len(data_buff) /\ data_buff # <<>>
      BY <2>3, <1>1, <1>3
    <3>2. puts = early /\ r_pc # "drain"
      BY <3>1, <1>1 DEF Put, BufInv
    <3>3. Right(raw_data[data_buff[k]], Len(handed) + k)
      BY <3>1, <1>1 DEF BufInv
    <3>4. QED
      BY <2>3, <3>1, <3>2, <3>3, <1>1, <1>2, <1>3, <1>4, <1>6 DEF Right, BufInv
  <2>4. QED
    BY <2>1, <2>2, <2>3
<1>8. \A k \in 1 .. Len(handed') : Right(handed[k], k)'
  BY <1>1, <1>2 DEF BufInv, Right
<1>9. BufInv'
  <2>1. Len(handed') + Len(data_buff') = puts'
    BY <1>1, <1>2, <1>3
  <2>2. r_pc' # "drain" => puts' = early'
    BY <1>2
  <2>3. sender' = "none" =>
          /\ puts' = early' /\ handed' = <<>> /\ r_pc' # "drain"
          /\ \A k \in 1 .. Len(data_buff') : data_buff'[k] = info'
    BY <1>1, <1>2, <1>3 DEF BufInv
  <2>4. r_pc' # "put"
    BY <1>2
  <2>5. QED
    BY <2>1, <2>2, <2>3, <2>4, <1>7, <1>8 DEF BufInv
<1>10. WindowInv'
  BY <1>1, <1>2 DEF WindowInv, Put
<1>11. QED
  BY <1>5, <1>9, <1>10

\* The other steps of the receiving thread and of GNU Radio.
LEMMA ReceiverStep ==
  ASSUME IInv, UNCHANGED otherThanGrc,
         \/ Accept \/ SecondClient \/ GrcEnds \/ PutNone \/ AllHandedOver
         \/ ClientAsks \/ Read \/ Logout \/ Reset
  PROVE  GrcTypeOK' /\ BufInv' /\ WindowInv'
<1>1. /\ UNCHANGED <<bufVars, ui>>
      /\ r_pc' \in {"select", "recv", "put", "dead"} \/ r_pc' = r_pc
      /\ r_pc' = "put" => puts < MaxData \/ r_pc = "put"
      /\ r_pc = "drain" /\ r_pc' # "drain" => data_buff = <<>>
      /\ r_pc = "dead" => r_pc' = "dead"
  BY DEF Accept, SecondClient, GrcEnds, PutNone, AllHandedOver, ClientAsks, Read,
         Logout, Reset, Reading, otherThanGrc, bufVars
<1>2. GrcTypeOK'
  BY DEF IInv, TypeOK, GrcTypeOK, Accept, SecondClient, GrcEnds, PutNone,
         AllHandedOver, ClientAsks, Read, Logout, Reset, bufVars
<1>3. BufInv'
  BY <1>1 DEF IInv, BufInv, Right, bufVars
<1>4. WindowInv'
  BY <1>1 DEF IInv, WindowInv, bufVars
<1>5. QED
  BY <1>2, <1>3, <1>4

-----------------------------------------------------------------------------
(* A reading is handed to the sender.                                      *)

LEMMA HandOverStep ==
  ASSUME IInv, HandOver
  PROVE  /\ GrcTypeOK' /\ BufInv'
         /\ Len(handed) \in Nat /\ Len(handed') = Len(handed) + 1
         /\ Len(handed') \in Item
<1> USE GrcAssumption
<1>1. /\ GrcTypeOK /\ BufInv /\ r_pc = "drain" /\ data_buff # <<>>
      /\ handed' = Append(handed, raw_data[Head(data_buff)])
      /\ data_buff' = Tail(data_buff)
      /\ UNCHANGED <<r_pc, grc_stop, connected, asking, puts, early, info, raw_data,
                     sender>>
  BY DEF IInv, TypeOK, HandOver
<1>2. /\ data_buff \in Seq(1 .. MaxStarts) /\ handed \in Seq(1 .. MaxData)
      /\ raw_data \in [1 .. MaxStarts -> 0 .. MaxData]
      /\ puts \in 0 .. MaxData /\ early \in 0 .. puts
      /\ Len(handed) + Len(data_buff) = puts
      /\ sender # "none"
  BY <1>1 DEF GrcTypeOK, BufInv
<1>3. /\ data_buff' \in Seq(1 .. MaxStarts)
      /\ Head(data_buff) \in 1 .. MaxStarts /\ Head(data_buff) = data_buff[1]
      /\ Len(data_buff) \in Nat \ {0} /\ Len(data_buff') = Len(data_buff) - 1
      /\ \A k \in 1 .. Len(data_buff) - 1 : data_buff'[k] = data_buff[k + 1]
  BY <1>1, <1>2, TailFacts
<1> DEFINE v == raw_data[Head(data_buff)]
<1>4. Len(handed) \in Nat
  BY <1>2, ElementFacts
<1>5. Right(v, Len(handed) + 1)
  <2>1. Right(raw_data[data_buff[1]], Len(handed) + 1)
    BY <1>1, <1>3 DEF BufInv
  <2>2. QED
    BY <2>1, <1>3
<1>6. v \in 1 .. MaxData
  <2>1. v \in 0 .. MaxData
    BY <1>2, <1>3
  <2>2. CASE Len(handed) + 1 > early
    BY <2>1, <2>2, <1>2, <1>4, <1>5 DEF Right
  <2>3. CASE ~(Len(handed) + 1 > early)
    BY <2>1, <2>3, <1>2, <1>4, <1>5 DEF Right
  <2>4. QED
    BY <2>2, <2>3
<1> HIDE DEF v
<1>7. /\ handed' \in Seq(1 .. MaxData) /\ Len(handed') = Len(handed) + 1
      /\ \A k \in 1 .. Len(handed) : handed'[k] = handed[k]
      /\ handed'[Len(handed) + 1] = v
  <2>1. handed' = Append(handed, v)
    BY <1>1 DEF v
  <2>2. QED
    BY <2>1, <1>2, <1>6, AppendFacts
<1>8. Len(handed') \in Item
  BY <1>2, <1>3, <1>4, <1>7 DEF Item
<1>9. GrcTypeOK'
  BY <1>1, <1>3, <1>7 DEF GrcTypeOK
<1>10. BufInv'
  <2>1. \A k \in 1 .. Len(data_buff') : Right(raw_data[data_buff[k]], Len(handed) + k)'
    <3> SUFFICES ASSUME NEW k \in 1 .. Len(data_buff')
                 PROVE  Right(raw_data[data_buff[k]], Len(handed) + k)'
      OBVIOUS
    <3>1. k \in Nat /\ k + 1 \in 1 .. Len(data_buff) /\ data_buff'[k] = data_buff[k + 1]
      BY <1>3
    <3>2. Len(handed') + k = Len(handed) + (k + 1)
      BY <3>1, <1>4, <1>7
    <3>3. Right(raw_data[data_buff[k + 1]], Len(handed) + (k + 1))
      BY <3>1, <1>1 DEF BufInv
    <3>4. QED
      BY <3>1, <3>2, <3>3, <1>1 DEF Right
  <2>2. \A k \in 1 .. Len(handed') : Right(handed[k], k)'
    <3> SUFFICES ASSUME NEW k \in 1 .. Len(handed') PROVE Right(handed[k], k)'
      OBVIOUS
    <3>1. CASE k = Len(handed) + 1
      BY <3>1, <1>1, <1>5, <1>7 DEF Right
    <3>2. CASE k \in 1 .. Len(handed)
      <4>1. Right(handed[k], k) /\ handed'[k] = handed[k]
        BY <3>2, <1>1, <1>7 DEF BufInv
      <4>2. QED
        BY <4>1, <1>1 DEF Right
    <3>3. QED
      BY <3>1, <3>2, <1>4, <1>7
  <2>3. Len(handed') + Len(data_buff') = puts'
    <3>1. puts' = puts /\ Len(handed) + Len(data_buff) = puts
      BY <1>1, <1>2
    <3>2. Len(handed') = Len(handed) + 1 /\ Len(data_buff') = Len(data_buff) - 1
      BY <1>3, <1>7
    <3>3. Len(handed) \in Nat /\ Len(data_buff) \in Nat
      BY <1>3, <1>4
    <3>4. QED
      BY <3>1, <3>2, <3>3
  <2>4. QED
    BY <2>1, <2>2, <2>3, <1>1, <1>2 DEF BufInv
<1>11. QED
  BY <1>4, <1>7, <1>8, <1>9, <1>10

-----------------------------------------------------------------------------
(* The steps of the websocket's two threads.                               *)

\* What is common to them: nothing else changes.
WsAlone == UNCHANGED <<ui, protocol, base, grcVars, skVars>>

\* Steps that leave the items where they are.
LEMMA WsControlStep ==
  ASSUME IInv, UNCHANGED <<item, queue, got, written, handed>>,
         \/ Restart \/ StartHere \/ Tick \/ WsConnect \/ WsConnectFails
         \/ CloseNoticed \/ WsServerCloses
         \/ (lock \in {"loop", "caller"} /\ DrainTest)
         \/ (PutOrThrowAway /\ call' = "get")
  PROVE  WsTypeOK(Item)' /\ WsInv' /\ WsOrder' /\ WsBound'
<1>1. WsTypeOK(Item) /\ WsInv /\ WsOrder /\ WsBound
  BY DEF IInv, TypeOK
<1>2. WsOrder' /\ WsBound'
  BY <1>1 DEF WsOrder, WsBound
<1>3. /\ call' = call /\ (lock' = "caller" => lock = "caller")
      \/ /\ call' \in {"start", "full", "drain", "get"}
         /\ call # "idle"
         /\ lock' = "caller" => call' = "drain"
  BY <1>1 DEF WsInv, Restart, StartHere, Tick, WsConnect, WsConnectFails,
         CloseNoticed, WsServerCloses, DrainTest, DrainEnds, PutOrThrowAway,
         startVars, callVars, drainVars
<1>4. drain' \in {"none", "test", "get"} \/ drain' = drain
  BY DEF Restart, StartHere, Tick, WsConnect, WsConnectFails,
         CloseNoticed, WsServerCloses, DrainTest, DrainEnds, PutOrThrowAway,
         startVars, callVars, drainVars
<1>5. WsInv'
  BY <1>1, <1>3, <1>4 DEF WsInv
<1>6. /\ ws' \in {"none", "open", "shut"} /\ waiting' \in BOOLEAN
      /\ lock' \in {"free", "connect", "loop", "caller"}
      /\ period' \in {"none", "on", "off"}
  BY <1>1, Zenon DEF WsTypeOK, Restart, StartHere, Tick, WsConnect, WsConnectFails,
         CloseNoticed, WsServerCloses, DrainTest, DrainEnds, PutOrThrowAway,
         startVars, callVars, drainVars
<1>7. WsTypeOK(Item)'
  <2>1. call' \in {"idle", "restart", "start", "drain", "full", "get", "put"}
    BY <1>1, <1>3 DEF WsTypeOK
  <2>2. drain' \in {"none", "test", "get", "write"}
    BY <1>1, <1>4 DEF WsTypeOK
  <2>3. QED
    BY <1>1, <1>6, <2>1, <2>2, Zenon DEF WsTypeOK, Item
<1>8. QED
  BY <1>2, <1>5, <1>7

\* The caller puts its item into the queue.
LEMMA WsPutStep ==
  ASSUME IInv, Len(queue) < MaxQueue, call # "idle",
         queue' = Append(queue, item), item' = 0, call' = "idle", lock # "caller",
         UNCHANGED <<ws, lock, waiting, period, drain, got, written, handed>>
  PROVE  WsTypeOK(Item)' /\ WsInv' /\ WsOrder' /\ WsBound'
<1> USE MaxQueueAssumption
<1>1. WsTypeOK(Item) /\ WsInv /\ WsOrder /\ WsBound /\ item # 0
  BY DEF IInv, TypeOK, WsInv
<1>2. queue \in Seq(Item) /\ item \in Item
  BY <1>1 DEF WsTypeOK
<1>3. /\ queue' \in Seq(Item) /\ Len(queue) \in Nat
      /\ Len(queue') = Len(queue) + 1
      /\ \A k \in 1 .. Len(queue) : queue'[k] = queue[k]
      /\ queue'[Len(queue) + 1] = item
  BY <1>2, AppendFacts
<1>4. WsTypeOK(Item)'
  <2>1. Len(queue') <= MaxQueue
    BY <1>3
  <2>2. QED
    BY <1>1, <1>3, <2>1, Zenon DEF WsTypeOK, Item
<1>5. WsInv'
  BY <1>1 DEF WsInv
<1>6. WsOrder'
  <2>1. \A i, j \in 1 .. Len(queue') : i < j => queue'[i] < queue'[j]
    BY <1>1, <1>3 DEF WsOrder
  <2>2. \A i \in 1 .. Len(written), j \in 1 .. Len(queue') : written[i] < queue'[j]
    BY <1>1, <1>3 DEF WsOrder
  <2>3. got # 0 => \A j \in 1 .. Len(queue') : got < queue'[j]
    BY <1>1, <1>3 DEF WsOrder
  <2>4. QED
    BY <1>1, <2>1, <2>2, <2>3 DEF WsOrder
<1>7. WsBound'
  <2>1. \A j \in 1 .. Len(queue') : queue'[j] <= Len(handed)
    BY <1>1, <1>3 DEF WsBound
  <2>2. 0 <= Len(handed)
    BY ElementFacts DEF IInv, TypeOK, GrcTypeOK
  <2>3. QED
    BY <1>1, <2>1, <2>2 DEF WsBound
<1>8. QED
  BY <1>4, <1>5, <1>6, <1>7

\* One of the two takes the oldest out: the caller throws it away, the other
\* keeps it.
LEMMA WsTakeStep ==
  ASSUME IInv, queue # <<>>, queue' = Tail(queue),
         \/ got' = got /\ drain' = drain /\ call' = "put" /\ call = "get"
         \/ got' = Head(queue) /\ drain' = "write" /\ call' = call,
         UNCHANGED <<item, ws, lock, waiting, period, written, handed>>
  PROVE  WsTypeOK(Item)' /\ WsInv' /\ WsOrder' /\ WsBound'
<1> USE MaxQueueAssumption
<1>1. WsTypeOK(Item) /\ WsInv /\ WsOrder /\ WsBound
  BY DEF IInv, TypeOK
<1>2. queue \in Seq(Item) /\ got \in Item \cup {0}
  BY <1>1 DEF WsTypeOK
<1>3. /\ queue' \in Seq(Item) /\ Head(queue) \in Item /\ Head(queue) = queue[1]
      /\ Len(queue) \in Nat \ {0} /\ Len(queue') = Len(queue) - 1
      /\ \A k \in 1 .. Len(queue) - 1 : queue'[k] = queue[k + 1]
  BY <1>2, TailFacts
<1>4. Len(queue') < MaxQueue /\ Len(queue') <= MaxQueue
  BY <1>1, <1>3 DEF WsTypeOK
<1>5. got' = got \/ (got' = queue[1] /\ got' \in Item /\ got' # 0)
  BY <1>3 DEF Item
<1>6. WsTypeOK(Item)'
  <2>1. call' \in {"idle", "restart", "start", "drain", "full", "get", "put"}
    BY <1>1 DEF WsTypeOK
  <2>2. drain' \in {"none", "test", "get", "write"}
    BY <1>1 DEF WsTypeOK
  <2>3. got' \in Item \cup {0}
    BY <1>2, <1>5
  <2>4. QED
    BY <1>1, <1>3, <1>4, <2>1, <2>2, <2>3, Zenon DEF WsTypeOK, Item
<1>7. WsInv'
  BY <1>1, <1>3, <1>4, <1>5 DEF WsInv, Item
<1>8. WsOrder'
  <2>1. \A i, j \in 1 .. Len(queue') : i < j => queue'[i] < queue'[j]
    BY <1>1, <1>3 DEF WsOrder
  <2>2. \A i \in 1 .. Len(written), j \in 1 .. Len(queue') : written[i] < queue'[j]
    BY <1>1, <1>3 DEF WsOrder
  <2>3. \A j \in 1 .. Len(queue') : queue[1] < queue'[j]
    BY <1>1, <1>3 DEF WsOrder
  <2>4. got # 0 => \A j \in 1 .. Len(queue') : got < queue'[j]
    BY <1>1, <1>3 DEF WsOrder
  <2>5. got' # 0 => /\ \A i \in 1 .. Len(written) : written[i] < got'
                    /\ \A j \in 1 .. Len(queue') : got' < queue'[j]
    BY <1>1, <1>3, <1>5, <2>3, <2>4 DEF WsOrder
  <2>6. item # 0 => /\ \A j \in 1 .. Len(queue') : queue'[j] < item
                    /\ got' < item
    BY <1>1, <1>3, <1>5 DEF WsOrder
  <2>7. QED
    BY <1>1, <2>1, <2>2, <2>5, <2>6 DEF WsOrder
<1>9. WsBound'
  BY <1>1, <1>3, <1>5 DEF WsBound
<1>10. QED
  BY <1>6, <1>7, <1>8, <1>9

\* What was taken out is written, or lost with its connection.
LEMMA WsWriteStep ==
  ASSUME IInv, DrainWrite, lock \in {"loop", "caller"}, handed' = handed
  PROVE  WsTypeOK(Item)' /\ WsInv' /\ WsOrder' /\ WsBound'
<1>1. /\ WsTypeOK(Item) /\ WsInv /\ WsOrder /\ WsBound
      /\ drain = "write" /\ got' = 0 /\ drain' # "write"
      /\ UNCHANGED <<item, ws, waiting, period, queue>>
      /\ \/ call' = call /\ lock' = lock /\ drain' = "test"
         \/ call' \in {call, "full"} /\ lock' = "free" /\ drain' = "none"
            /\ (call' # call => lock = "caller")
      /\ written' = written \/ written' = Append(written, got)
  BY DEF IInv, TypeOK, DrainWrite, DrainEnds, startVars, callVars
<1>2. /\ got \in Item /\ written \in Seq(Item) /\ got # 0
      /\ queue \in Seq(Item) /\ Len(queue) <= MaxQueue
  BY <1>1 DEF WsTypeOK, WsInv
<1>3. CASE written' = written
  <2>1. WsTypeOK(Item)'
    BY <1>1, <1>2, <1>3, Zenon DEF WsTypeOK, Item
  <2>2. WsInv'
    BY <1>1 DEF WsInv
  <2>3. WsOrder'
    BY <1>1, <1>3 DEF WsOrder, WsTypeOK, Item
  <2>4. 0 <= Len(handed)
    BY GrcAssumption, ElementFacts DEF IInv, TypeOK, GrcTypeOK
  <2>5. WsBound'
    BY <1>1, <1>3, <2>4 DEF WsBound
  <2>6. QED
    BY <2>1, <2>2, <2>3, <2>5
<1>4. CASE written' = Append(written, got)
  <2>1. /\ written' \in Seq(Item) /\ Len(written) \in Nat
        /\ Len(written') = Len(written) + 1
        /\ \A k \in 1 .. Len(written) : written'[k] = written[k]
        /\ written'[Len(written) + 1] = got
    BY <1>2, <1>4, AppendFacts
  <2>2. WsTypeOK(Item)'
    BY <1>1, <1>2, <2>1, Zenon DEF WsTypeOK, Item
  <2>3. WsInv'
    BY <1>1 DEF WsInv
  <2>4. WsOrder'
    <3>1. \A i, j \in 1 .. Len(written') : i < j => written'[i] < written'[j]
      BY <1>1, <1>2, <2>1 DEF WsOrder
    <3>2. \A i \in 1 .. Len(written'), j \in 1 .. Len(queue) : written'[i] < queue[j]
      BY <1>1, <1>2, <2>1 DEF WsOrder
    <3>3. item # 0 => \A i \in 1 .. Len(written') : written'[i] < item
      BY <1>1, <1>2, <2>1 DEF WsOrder
    <3>4. item # 0 => 0 < item
      BY <1>1 DEF WsTypeOK, Item
    <3>5. QED
      BY <1>1, <3>1, <3>2, <3>3, <3>4 DEF WsOrder
  <2>5. 0 <= Len(handed)
    BY GrcAssumption, ElementFacts DEF IInv, TypeOK, GrcTypeOK
  <2>6. WsBound'
    BY <1>1, <2>1, <2>5 DEF WsBound
  <2>7. QED
    BY <2>2, <2>3, <2>4, <2>6
<1>5. QED
  BY <1>1, <1>3, <1>4

LEMMA WsThreadsStep ==
  ASSUME IInv, WsCaller \/ WsLoop \/ WsServerCloses, handed' = handed
  PROVE  WsTypeOK(Item)' /\ WsInv' /\ WsOrder' /\ WsBound'
<1>1. CASE \/ Restart \/ StartHere \/ Tick \/ WsConnect \/ WsConnectFails
           \/ CloseNoticed \/ WsServerCloses
           \/ (lock \in {"loop", "caller"} /\ DrainTest)
           \/ (PutOrThrowAway /\ call' = "get")
  <2>1. UNCHANGED <<item, queue, got, written>>
    BY <1>1 DEF Restart, StartHere, Tick, WsConnect, WsConnectFails, CloseNoticed,
       WsServerCloses, DrainTest, DrainEnds, PutOrThrowAway, callVars, startVars,
       drainVars
  <2>2. QED
    BY <1>1, <2>1, WsControlStep
<1>2. CASE (PutOrThrowAway /\ call' # "get") \/ PutNewest
  <2>1. WsInv
    BY DEF IInv
  <2>2. /\ Len(queue) < MaxQueue /\ call # "idle" /\ lock # "caller"
        /\ queue' = Append(queue, item) /\ item' = 0 /\ call' = "idle"
        /\ UNCHANGED <<ws, lock, waiting, period, drain, got, written>>
    BY <1>2, <2>1 DEF WsInv, PutOrThrowAway, PutNewest, startVars, drainVars
  <2>3. QED
    BY <2>2, WsPutStep
<1>3. CASE GetOldest \/ DrainGet
  <2>1. /\ queue # <<>> /\ queue' = Tail(queue)
        /\ \/ got' = got /\ drain' = drain /\ call' = "put" /\ call = "get"
           \/ got' = Head(queue) /\ drain' = "write" /\ call' = call
        /\ UNCHANGED <<item, ws, lock, waiting, period, written>>
    BY <1>3 DEF GetOldest, DrainGet, startVars, drainVars, callVars
  <2>2. QED
    BY <2>1, WsTakeStep
<1>4. CASE lock \in {"loop", "caller"} /\ DrainWrite
  BY <1>4, WsWriteStep
<1>5. QED
  BY <1>1, <1>2, <1>3, <1>4 DEF WsCaller, WsLoop, OnConnected

-----------------------------------------------------------------------------
(* The steps of the socket's thread and its server.                        *)

LEMMA SkTypeStep ==
  ASSUME IInv, SkThread \/ ServerAnswers \/ SkServerCloses
  PROVE  SkTypeOK(Item)'
<1>1. /\ SkTypeOK(Item)
      /\ SendQueue \in Seq(Item) /\ sent \in Seq(Item)
      /\ ReSendBuf \in Item \cup {0} /\ data \in Item \cup {0}
      /\ s_pc \in {"send", "answer"} => data \in Item
  BY DEF IInv, TypeOK, SkTypeOK, SkInv
<1>2. SendQueue' \in Seq(Item) /\ data' \in Item \cup {0}
  <2>1. CASE Take
    <3>1. CASE SendQueue # <<>> /\ data' = Head(SendQueue) /\ SendQueue' = Tail(SendQueue)
      BY <3>1, <1>1, TailFacts
    <3>2. QED
      BY <2>1, <3>1, <1>1 DEF Take
  <2>2. CASE ~Take
    BY <2>2, <1>1 DEF SkThread, SkConnect, SkSend, ExchangeError, Answer, Extra,
       SkEnds, ServerAnswers, SkServerCloses
  <2>3. QED
    BY <2>1, <2>2
<1>3. sent' \in Seq(Item)
  <2>1. CASE sent' = sent
    BY <2>1, <1>1
  <2>2. CASE SkSend /\ sent' = Append(sent, data)
    <3>1. data \in Item
      BY <2>2, <1>1 DEF SkSend
    <3>2. QED
      BY <3>1, <2>2, <1>1, AppendFacts
  <2>3. QED
    BY <2>1, <2>2 DEF SkThread, SkConnect, Take, SkSend, ExchangeError, Answer,
       Extra, SkEnds, ServerAnswers, SkServerCloses
<1>4. ReSendBuf' \in Item \cup {0}
  BY <1>1 DEF SkThread, SkConnect, Take, SkSend, ExchangeError, Answer,
     Extra, SkEnds, ServerAnswers, SkServerCloses
<1>5. owed' \in Nat /\ answers' \in Nat
  BY <1>1 DEF SkTypeOK, SkThread, SkConnect, Take, SkSend, ExchangeError, Answer,
     Extra, SkEnds, ServerAnswers, SkServerCloses, exchangeVars
<1>6. s_pc' \in {"none", "top", "send", "answer", "extra", "dead"}
      /\ skt' \in {"new", "open", "shut"}
  BY <1>1 DEF SkTypeOK, SkThread, SkConnect, Take, SkSend, ExchangeError, Answer,
     Extra, SkEnds, ServerAnswers, SkServerCloses, Afterwards
<1>7. infds' \in BOOLEAN /\ is_connected' \in BOOLEAN /\ thread_stop' \in BOOLEAN
  <2>1. /\ infds' = infds \/ infds' = (answers > 0 \/ skt = "shut")
        /\ is_connected' = is_connected \/ is_connected' = TRUE \/ is_connected' = FALSE
        /\ thread_stop' = thread_stop
    BY Zenon DEF SkThread, SkConnect, Take, SkSend, ExchangeError, Answer,
       Extra, SkEnds, ServerAnswers, SkServerCloses, exchangeVars
  <2>2. (answers > 0 \/ skt = "shut") \in BOOLEAN
    OBVIOUS
  <2>3. QED
    BY <1>1, <2>1, <2>2, Zenon DEF SkTypeOK
<1>8. QED
  BY <1>2, <1>3, <1>4, <1>5, <1>6, <1>7, Zenon DEF SkTypeOK, Item

\* Sending moves an item from what is held to what is sent, taking one from what
\* is queued to what is held; the rest of the steps move none.
LEMMA SkInvStep ==
  ASSUME IInv, SkThread \/ ServerAnswers \/ SkServerCloses,
         UNCHANGED <<ui, protocol, base, handed, sender>>
  PROVE  SkInv'
<1>1. /\ SkInv /\ SkTypeOK(Item) /\ base \in Nat
      /\ SendQueue \in Seq(Item) /\ sent \in Seq(Item)
      /\ Len(SendQueue) \in Nat /\ Len(sent) \in Nat
  <2>1. /\ SkInv /\ SkTypeOK(Item) /\ base \in 0 .. MaxData
        /\ SendQueue \in Seq(Item) /\ sent \in Seq(Item)
    BY DEF IInv, TypeOK, SkTypeOK
  <2>2. QED
    BY <2>1, GrcAssumption, ElementFacts
<1>2. sent = [k \in 1 .. Len(sent) |-> base + k]
  BY <1>1 DEF SkInv
<1> DEFINE
  Gapless(h, n) ==
    /\ \A k \in 1 .. Len(SendQueue) : SendQueue[k] = base + n + h + k
    /\ sender = "new" /\ protocol = "socket" =>
         Len(handed) = base + n + h + Len(SendQueue)
<1>gap. skt # "shut" => ReSendBuf = 0 /\ Gapless(Holds, Len(sent))
  BY <1>1 DEF SkInv
<1>3. CASE Take
  <2>1. UNCHANGED <<skt, sent>> /\ s_pc = "top" /\ s_pc' = "send"
    BY <1>3 DEF Take
  <2>2. data' # 0
    <3>1. CASE SendQueue # <<>> /\ data' = Head(SendQueue)
      <4>1. Head(SendQueue) \in Item
        BY <3>1, <1>1, TailFacts
      <4>2. QED
        BY <4>1, <3>1 DEF Item
    <3>2. QED
      BY <3>1, <1>3 DEF Take
  <2>3. ASSUME skt # "shut"
        PROVE  /\ ReSendBuf' = 0 /\ data' = base + Len(sent) + 1
               /\ Len(SendQueue') = Len(SendQueue) - 1
               /\ \A k \in 1 .. Len(SendQueue') : SendQueue'[k] = base + Len(sent) + 1 + k
    <3>1. /\ ReSendBuf' = 0 /\ SendQueue # <<>>
          /\ data' = Head(SendQueue) /\ SendQueue' = Tail(SendQueue)
          /\ \A k \in 1 .. Len(SendQueue) : SendQueue[k] = base + Len(sent) + k
      BY <1>1, <1>3, <2>1, <2>3 DEF Take, SkInv, Holds
    <3>2. /\ data' = SendQueue[1] /\ Len(SendQueue) \in Nat \ {0}
          /\ Len(SendQueue') = Len(SendQueue) - 1
          /\ \A k \in 1 .. Len(SendQueue) - 1 : SendQueue'[k] = SendQueue[k + 1]
      BY <3>1, <1>1, TailFacts
    <3>3. QED
      BY <3>1, <3>2, <1>1
  <2>4. skt # "shut" /\ sender = "new" /\ protocol = "socket" =>
          Len(handed) = base + Len(sent) + 1 + Len(SendQueue')
    <3>1. Holds = 0
      BY <2>1 DEF Holds
    <3>2. QED
      BY <3>1, <2>3, <1>1, <1>gap
  <2>5. protocol # "websocket"
    BY <1>1, <2>1 DEF SkInv
  <2>6. Holds' = 1
    BY <2>1 DEF Holds
  <2>7. QED
    BY <1>1, <2>1, <2>2, <2>3, <2>4, <2>5, <2>6 DEF SkInv
<1>4. CASE SkSend
  <2>1. /\ UNCHANGED <<skt, data, SendQueue, ReSendBuf>>
        /\ s_pc = "send" /\ s_pc' = "answer"
        /\ sent' = sent \/ (skt = "open" /\ sent' = Append(sent, data))
        /\ skt # "shut" => sent' = Append(sent, data)
    BY <1>4 DEF SkSend
  <2>2. data \in Item /\ protocol # "websocket" /\ Holds = 1 /\ Holds' = 0
    BY <1>1, <2>1 DEF SkInv, SkTypeOK, Holds
  <2>3. skt # "shut" => /\ data = base + Len(sent) + 1
                        /\ Len(sent') = Len(sent) + 1
    <3>1. skt # "shut" => Len(sent') = Len(sent) + 1
      BY <2>1, <2>2, <1>1, AppendFacts
    <3>2. QED
      BY <3>1, <1>1, <2>1 DEF SkInv
  <2>4. sent' = [k \in 1 .. Len(sent') |-> base + k]
    <3>1. CASE sent' = sent
      BY <3>1, <1>2
    <3>2. CASE skt = "open" /\ sent' = Append(sent, data)
      <4>1. /\ sent' \in Seq(Item) /\ Len(sent') = Len(sent) + 1
            /\ \A k \in 1 .. Len(sent) : sent'[k] = sent[k]
            /\ sent'[Len(sent) + 1] = base + (Len(sent) + 1)
        BY <3>2, <2>2, <2>3, <1>1, AppendFacts
      <4>2. \A k \in 1 .. Len(sent) : sent[k] = base + k
        BY <1>2
      <4>3. ASSUME NEW k \in 1 .. Len(sent') PROVE sent'[k] = base + k
        <5>1. k \in 1 .. Len(sent) \/ k = Len(sent) + 1
          BY <4>1, <1>1
        <5>2. QED
          BY <5>1, <4>1, <4>2
      <4>4. sent' = [k \in 1 .. Len(sent') |-> sent'[k]]
        BY <4>1
      <4>5. QED
        BY <4>3, <4>4
    <3>3. QED
      BY <3>1, <3>2, <2>1
  <2>5. ASSUME skt # "shut"
        PROVE  /\ \A k \in 1 .. Len(SendQueue) : SendQueue[k] = base + Len(sent') + 0 + k
               /\ sender = "new" /\ protocol = "socket" =>
                    Len(handed) = base + Len(sent') + 0 + Len(SendQueue)
    <3>1. Len(sent') = Len(sent) + 1 /\ Gapless(1, Len(sent))
      BY <2>2, <2>3, <2>5, <1>gap
    <3>2. base + Len(sent') + 0 = base + Len(sent) + 1
      BY <3>1, <1>1
    <3>3. QED
      BY <3>1, <3>2
  <2>6. QED
    BY <1>1, <2>1, <2>2, <2>4, <2>5 DEF SkInv, Item
<1>5. CASE ExchangeError
  BY <1>1, <1>2, <1>5 DEF SkInv, ExchangeError, Afterwards
<1>6. CASE SkServerCloses
  BY <1>1, <1>2, <1>6 DEF SkInv, SkServerCloses
<1>7. CASE SkConnect \/ Answer \/ Extra \/ SkEnds \/ ServerAnswers
  <2>1. /\ UNCHANGED <<SendQueue, ReSendBuf, sent>>
        /\ \/ s_pc' = s_pc /\ data' = data
           \/ s_pc \notin {"send", "none"} /\ s_pc' \notin {"send", "answer"}
    BY <1>7 DEF SkConnect, Answer, Extra, SkEnds, ServerAnswers, Afterwards, exchangeVars
  <2>2. Holds' = Holds
    BY <2>1 DEF Holds
  <2>3. skt' # "shut" => skt # "shut"
    BY <1>7 DEF SkConnect, Answer, Extra, SkEnds, ServerAnswers
  <2>4. sent' = [k \in 1 .. Len(sent') |-> base' + k]
    BY <1>2, <2>1
  <2>5. QED
    BY <1>1, <2>1, <2>2, <2>3, <2>4 DEF SkInv, Holds
<1>8. QED
  BY <1>3, <1>4, <1>5, <1>6, <1>7 DEF SkThread

-----------------------------------------------------------------------------
(* The composition.                                                        *)

\* What a reading handed over means for the senders.
LEMMA SendStep ==
  ASSUME IInv, SendData
  PROVE  IInv'
<1> DEFINE i == Len(handed')
<1>1. /\ TypeOK /\ BufInv /\ WindowInv /\ WsInv /\ WsOrder /\ WsBound /\ SkInv
      /\ HandOver /\ call = "idle" /\ UNCHANGED <<ui, protocol, base>>
  BY DEF IInv, SendData
<1>2. /\ GrcTypeOK' /\ BufInv' /\ i \in Item
      /\ Len(handed) \in Nat /\ i = Len(handed) + 1
  BY <1>1, HandOverStep
<1>3. UNCHANGED <<r_pc, puts, early, info, sender>>
  BY <1>1 DEF HandOver
<1>4. WindowInv'
  BY <1>1, <1>3 DEF WindowInv, HandOver
<1>5. WsTypeOK(Item) /\ SkTypeOK(Item) /\ faults \in 0 .. MaxFaults
  BY <1>1 DEF TypeOK
<1>6. \/ sender = "old" /\ UNCHANGED <<wsVars, skVars, faults>>
      \/ sender = "new" /\ protocol = "websocket" /\ WsSendData(i) /\ UNCHANGED skVars
      \/ sender = "new" /\ protocol = "socket" /\ SkSendData(i) /\ UNCHANGED wsVars
  BY DEF SendData
<1> HIDE DEF i
<1>7. WsTypeOK(Item)' /\ WsInv' /\ WsOrder' /\ WsBound'
  <2>1. CASE UNCHANGED wsVars
    <3>1. WsTypeOK(Item)' /\ WsInv' /\ WsOrder'
      BY <2>1, <1>1, <1>5, WsStays, WsTypeStays
    <3>2. UNCHANGED <<written, queue, got, item>>
      BY <2>1 DEF wsVars, callVars, drainVars
    <3>3. item \in Int /\ got \in Int
      BY <1>5, GrcAssumption DEF WsTypeOK, Item
    <3>4. WsBound'
      <4>1. ASSUME NEW x \in 1 .. Len(written) PROVE written[x] <= i
        <5>1. written \in Seq(Item) /\ written[x] \in Item
          BY <1>5, ElementFacts DEF WsTypeOK
        <5>2. written[x] <= Len(handed)
          BY <1>1 DEF WsBound
        <5>3. QED
          BY <5>1, <5>2, <1>2, GrcAssumption DEF Item
      <4>2. ASSUME NEW x \in 1 .. Len(queue) PROVE queue[x] <= i
        <5>1. queue \in Seq(Item) /\ queue[x] \in Item
          BY <1>5, ElementFacts DEF WsTypeOK
        <5>2. queue[x] <= Len(handed)
          BY <1>1 DEF WsBound
        <5>3. QED
          BY <5>1, <5>2, <1>2, GrcAssumption DEF Item
      <4>3. got <= i /\ item <= i
        BY <3>3, <1>1, <1>2 DEF WsBound
      <4>4. QED
        BY <4>1, <4>2, <4>3, <3>2 DEF WsBound, i
    <3>5. QED
      BY <3>1, <3>4
  <2>2. CASE WsSendData(i)
    <3>1. /\ item' = i /\ call' = "restart" /\ period' \in {period, "on"}
          /\ UNCHANGED <<ws, lock, waiting, drain, got, written, queue>>
      BY <2>2 DEF WsSendData, drainVars
    <3>2. i \in Item /\ i # 0
      BY <1>2 DEF Item
    <3>3. WsTypeOK(Item)'
      BY <3>1, <3>2, <1>5, Zenon DEF WsTypeOK, Item
    <3>4. WsInv'
      BY <3>1, <3>2, <1>1 DEF WsInv
    <3>5. ASSUME NEW x \in 1 .. Len(written) PROVE written[x] < i
      <5>1. written \in Seq(Item) /\ written[x] \in Item
        BY <1>5, ElementFacts DEF WsTypeOK
      <5>2. written[x] <= Len(handed)
        BY <1>1 DEF WsBound
      <5>3. QED
        BY <5>1, <5>2, <1>2, GrcAssumption DEF Item
    <3>6. ASSUME NEW x \in 1 .. Len(queue) PROVE queue[x] < i
      <5>1. queue \in Seq(Item) /\ queue[x] \in Item
        BY <1>5, ElementFacts DEF WsTypeOK
      <5>2. queue[x] <= Len(handed)
        BY <1>1 DEF WsBound
      <5>3. QED
        BY <5>1, <5>2, <1>2, GrcAssumption DEF Item
    <3>7. got < i
      BY <1>1, <1>2, <1>5, GrcAssumption DEF WsBound, WsTypeOK, Item
    <3>8. WsOrder'
      BY <1>1, <3>1, <3>5, <3>6, <3>7 DEF WsOrder
    <3>9. WsBound'
      <4>1. \A x \in 1 .. Len(written) : written[x] <= i
        BY <3>5, <1>5, <3>2, GrcAssumption, ElementFacts DEF WsTypeOK, Item
      <4>2. \A x \in 1 .. Len(queue) : queue[x] <= i
        BY <3>6, <1>5, <3>2, GrcAssumption, ElementFacts DEF WsTypeOK, Item
      <4>3. got <= i /\ i <= i
        BY <3>7, <1>2, <1>5, GrcAssumption DEF WsTypeOK, Item
      <4>4. QED
        BY <4>1, <4>2, <4>3, <3>1 DEF WsBound, i
    <3>10. QED
      BY <3>3, <3>4, <3>8, <3>9
  <2>3. QED
    BY <1>6, <2>1, <2>2 DEF wsVars
<1>8. SkTypeOK(Item)' /\ SkInv'
  <2>1. CASE UNCHANGED skVars /\ (sender = "old" \/ protocol = "websocket")
    <3>1. SkTypeOK(Item)'
      BY <2>1, <1>5, SkTypeStays
    <3>2. UNCHANGED <<s_pc, skt, SendQueue, ReSendBuf, data, sent>>
      BY <2>1 DEF skVars
    <3>3. ~(sender' = "new" /\ protocol' = "socket")
      BY <2>1, <1>1, <1>3
    <3>4. QED
      BY <3>1, <3>2, <3>3, <1>1 DEF SkInv, Holds
  <2>2. CASE sender = "new" /\ protocol = "socket" /\ SkSendData(i)
    <3>1. /\ SendQueue \in Seq(Item) /\ SendQueue' = Append(SendQueue, i)
          /\ UNCHANGED <<s_pc, thread_stop, is_connected, skt, ReSendBuf, data, infds,
                         owed, answers, sent>>
      BY <2>2, <1>5 DEF SkSendData, SkTypeOK, exchangeVars
    <3>2. /\ SendQueue' \in Seq(Item) /\ Len(SendQueue) \in Nat
          /\ Len(SendQueue') = Len(SendQueue) + 1
          /\ \A k \in 1 .. Len(SendQueue) : SendQueue'[k] = SendQueue[k]
          /\ SendQueue'[Len(SendQueue) + 1] = i
      BY <3>1, <1>2, AppendFacts
    <3>3. SkTypeOK(Item)'
      BY <3>1, <3>2, <1>5, Zenon DEF SkTypeOK, Item
    <3>4. base \in Nat /\ Len(sent) \in Nat /\ Holds \in Nat
      BY <1>1, <1>5, GrcAssumption, ElementFacts DEF TypeOK, SkTypeOK, Holds
    <3> DEFINE n == base + Len(sent) + Holds
    <3>5. n \in Nat
      BY <3>4
    <3>6. skt # "shut" => /\ i = n + Len(SendQueue) + 1
                          /\ \A k \in 1 .. Len(SendQueue) : SendQueue[k] = n + k
      BY <1>1, <1>2, <2>2 DEF SkInv
    <3>7. n' = n
      BY <1>1, <3>1 DEF Holds
    <3> HIDE DEF n
    <3>8. ASSUME skt # "shut"
          PROVE  /\ \A k \in 1 .. Len(SendQueue') : SendQueue'[k] = n + k
                 /\ i = n + Len(SendQueue')
      <4>1. ASSUME NEW k \in 1 .. Len(SendQueue') PROVE SendQueue'[k] = n + k
        <5>1. k \in 1 .. Len(SendQueue) \/ k = Len(SendQueue) + 1
          BY <3>2
        <5>2. QED
          BY <5>1, <3>2, <3>5, <3>6, <3>8
      <4>2. i = n + Len(SendQueue')
        BY <3>2, <3>5, <3>6, <3>8
      <4>3. QED
        BY <4>1, <4>2
    <3>9. SkInv'
      <4>1. ASSUME skt # "shut"
            PROVE  /\ \A k \in 1 .. Len(SendQueue') :
                        SendQueue'[k] = (base + Len(sent) + Holds)' + k
                   /\ Len(handed') = (base + Len(sent) + Holds)' + Len(SendQueue')
        BY <4>1, <3>7, <3>8 DEF n, i
      <4>2. QED
        BY <1>1, <2>2, <3>1, <4>1 DEF SkInv
    <3>10. QED
      BY <3>3, <3>9
  <2>3. QED
    BY <1>6, <2>1, <2>2
<1>9. TypeOK'
  <2>1. ui' \in {"stopped", "starting", "running", "stopping"}
        /\ protocol' \in {"websocket", "socket"} /\ base' \in 0 .. MaxData
    BY <1>1 DEF TypeOK
  <2>2. faults' \in 0 .. MaxFaults
    BY <1>5, <1>6 DEF WsSendData, SkSendData
  <2>3. QED
    BY <2>1, <2>2, <1>2, <1>7, <1>8 DEF TypeOK, Item
<1>10. QED
  BY <1>2, <1>4, <1>7, <1>8, <1>9 DEF IInv

\* The threads of the connections, their server and GNU Radio.
LEMMA ThreadStep ==
  ASSUME IInv,
         \/ (WsCaller \/ WsLoop \/ WsServerCloses)
              /\ UNCHANGED <<ui, protocol, base, grcVars, skVars>>
         \/ (SkThread \/ ServerAnswers \/ SkServerCloses)
              /\ UNCHANGED <<ui, protocol, base, grcVars, wsVars>>,
         faults' = faults \/ Fault
  PROVE  IInv'
<1>1. /\ GrcTypeOK /\ WsTypeOK(Item) /\ SkTypeOK(Item) /\ faults \in 0 .. MaxFaults
      /\ BufInv /\ WindowInv /\ WsInv /\ WsOrder /\ WsBound /\ SkInv
      /\ TypeOK
  BY DEF IInv, TypeOK
<1>2. UNCHANGED <<ui, protocol, base, grcVars, r_pc, bufVars, handed, sender, info, puts>>
  BY DEF grcVars, bufVars
<1>3. GrcTypeOK' /\ BufInv' /\ WindowInv'
  <2>1. GrcTypeOK'
    BY <1>1, <1>2, GrcTypeStays
  <2>2. BufInv'
    BY <1>1, <1>2, BufStays
  <2>3. WindowInv'
    BY <1>1, <1>2 DEF WindowInv
  <2>4. QED
    BY <2>1, <2>2, <2>3
<1>4. /\ ui' \in {"stopped", "starting", "running", "stopping"}
      /\ protocol' \in {"websocket", "socket"} /\ base' \in 0 .. MaxData
  BY <1>1, <1>2 DEF TypeOK
<1>5. faults' \in 0 .. MaxFaults
  BY <1>1, MaxFaultsAssumption DEF Fault
<1>6. WsTypeOK(Item)' /\ WsInv' /\ WsOrder' /\ WsBound'
  <2>1. CASE WsCaller \/ WsLoop \/ WsServerCloses
    BY <2>1, <1>2, WsThreadsStep
  <2>2. CASE UNCHANGED wsVars
    BY <2>2, <1>1, <1>2, WsStays, BoundStays, WsTypeStays
  <2>3. QED
    BY <2>1, <2>2
<1>7. SkTypeOK(Item)' /\ SkInv'
  <2>1. CASE SkThread \/ ServerAnswers \/ SkServerCloses
    BY <2>1, <1>2, SkTypeStep, SkInvStep
  <2>2. CASE UNCHANGED skVars
    BY <2>2, <1>1, <1>2, SkStays, SkTypeStays
  <2>3. QED
    BY <2>1, <2>2
<1>8. QED
  BY <1>3, <1>4, <1>5, <1>6, <1>7 DEF IInv, TypeOK, Item

\* start_proxy begins: the buffer stays, and it is empty if it has no sender.
LEMMA StartStep ==
  ASSUME IInv, Start
  PROVE  IInv'
<1> USE GrcAssumption
<1>1. /\ GrcTypeOK /\ WsTypeOK(Item) /\ SkTypeOK(Item) /\ faults \in 0 .. MaxFaults
      /\ BufInv /\ WindowInv /\ WsInv /\ WsOrder /\ WsBound /\ SkInv
      /\ TypeOK
  BY DEF IInv, TypeOK
<1>2. /\ ui = "stopped" /\ ui' = "starting" /\ r_pc = "dead"
      /\ info < MaxStarts /\ info' = info + 1
      /\ sender' = (IF sender = "none" THEN "none" ELSE "old")
      /\ r_pc' \in {"select", "dead"}
      /\ grc_stop' = FALSE /\ connected' = FALSE /\ asking' = FALSE
      /\ UNCHANGED <<puts, early, raw_data, data_buff, handed>>
      /\ UNCHANGED <<protocol, base, wsVars, skVars, faults>>
  BY <1>1 DEF Start, GrcStart, WindowInv
<1>3. GrcTypeOK'
  <2>1. info' \in 0 .. MaxStarts /\ sender' \in {"none", "old", "new"}
    BY <1>1, <1>2 DEF GrcTypeOK
  <2>2. QED
    BY <1>1, <1>2, <2>1, Zenon DEF GrcTypeOK
<1>4. sender = "none" => puts = 0 /\ Len(data_buff) = 0
  <2>1. sender = "none" => puts = 0 /\ handed = <<>>
    BY <1>1, <1>2 DEF WindowInv, BufInv
  <2>2. Len(handed) \in Nat /\ Len(data_buff) \in Nat /\ Len(handed) + Len(data_buff) = puts
    BY <1>1, ElementFacts DEF GrcTypeOK, BufInv
  <2>3. QED
    BY <2>1, <2>2
<1>5. BufInv'
  <2>1. /\ Len(handed') + Len(data_buff') = puts'
        /\ data_buff' = <<>> \/ puts' = early'
        /\ \A k \in 1 .. Len(data_buff') : Right(raw_data[data_buff[k]], Len(handed) + k)'
        /\ \A k \in 1 .. Len(handed') : Right(handed[k], k)'
    BY <1>1, <1>2 DEF BufInv, Right
  <2>2. sender' = "none" =>
          /\ puts' = early' /\ handed' = <<>> /\ r_pc' # "drain"
          /\ \A k \in 1 .. Len(data_buff') : data_buff'[k] = info'
    BY <1>1, <1>2, <1>4 DEF BufInv
  <2>3. QED
    BY <1>2, <2>1, <2>2 DEF BufInv
<1>6. WindowInv'
  BY <1>1, <1>2 DEF WindowInv, GrcTypeOK
<1>7. WsTypeOK(Item)' /\ WsInv' /\ WsOrder' /\ WsBound'
  BY <1>1, <1>2, WsStays, BoundStays, WsTypeStays
<1>8. SkTypeOK(Item)'
  BY <1>1, <1>2, SkTypeStays
<1>9. SkInv'
  <2>1. UNCHANGED <<s_pc, skt, SendQueue, ReSendBuf, data, sent, base, protocol>>
    BY <1>2 DEF skVars
  <2>2. sender' # "new"
    BY <1>2
  <2>3. QED
    BY <1>1, <2>1, <2>2 DEF SkInv, Holds
<1>10. TypeOK'
  <2>1. UNCHANGED <<protocol, base, faults>>
    BY <1>2
  <2>2. QED
    BY <1>1, <1>2, <1>3, <1>7, <1>8, <2>1 DEF TypeOK, Item
<1>11. QED
  BY <1>5, <1>6, <1>7, <1>9, <1>10 DEF IInv

\* A new sender: what it will be handed starts behind what was handed before.
LEMMA SetSenderStep ==
  ASSUME IInv, SetSender
  PROVE  IInv'
<1> USE GrcAssumption, MaxQueueAssumption
<1>1. /\ GrcTypeOK /\ WsTypeOK(Item) /\ SkTypeOK(Item) /\ faults \in 0 .. MaxFaults
      /\ BufInv /\ WindowInv /\ WsInv /\ WsOrder /\ WsBound /\ SkInv
      /\ TypeOK
  BY DEF IInv, TypeOK
<1>2. /\ ui = "starting" /\ ui' = "running" /\ sender' = "new" /\ base' = Len(handed)
      /\ UNCHANGED <<protocol, r_pc, grc_stop, connected, asking, puts, early, info,
                     raw_data, data_buff, handed, faults>>
      /\ \/ protocol = "websocket" /\ WsCreate /\ UNCHANGED skVars
         \/ protocol # "websocket" /\ SkCreate /\ UNCHANGED wsVars
  BY DEF SetSender
<1>3. GrcTypeOK'
  BY <1>1, <1>2, Zenon DEF GrcTypeOK
<1>4. /\ Len(handed) \in 0 .. MaxData
  <2>1. /\ Len(handed) \in Nat /\ Len(data_buff) \in Nat /\ puts \in 0 .. MaxData
        /\ Len(handed) + Len(data_buff) = puts
    BY <1>1, ElementFacts DEF GrcTypeOK, BufInv
  <2>2. QED
    BY <2>1
<1>5. BufInv'
  BY <1>1, <1>2 DEF BufInv, Right
<1>6. WindowInv'
  BY <1>1, <1>2 DEF WindowInv
<1>7. WsTypeOK(Item)' /\ WsInv' /\ WsOrder' /\ WsBound'
  <2>1. CASE WsCreate
    <3>1. WsTypeOK(Item)'
      <4>1. queue' \in Seq(Item) /\ written' \in Seq(Item) /\ Len(queue') = 0
        BY <2>1, EmptyFacts DEF WsCreate
      <4>2. Len(queue') <= MaxQueue
        BY <4>1
      <4>3. QED
        BY <2>1, <4>1, <4>2, Zenon DEF WsCreate, WsTypeOK, Item
    <3>2. WsInv' /\ WsOrder' /\ WsBound'
      BY <2>1, <1>2, <1>4 DEF WsCreate, WsInv, WsOrder, WsBound
    <3>3. QED
      BY <3>1, <3>2
  <2>2. CASE UNCHANGED wsVars
    BY <2>2, <1>1, <1>2, WsStays, BoundStays, WsTypeStays
  <2>3. QED
    BY <1>2, <2>1, <2>2
<1>8. SkTypeOK(Item)' /\ SkInv'
  <2>1. CASE SkCreate /\ protocol # "websocket"
    <3>1. SkTypeOK(Item)'
      <4>1. SendQueue' \in Seq(Item) /\ sent' \in Seq(Item)
        BY <2>1, EmptyFacts DEF SkCreate
      <4>2. QED
        BY <2>1, <4>1, Zenon DEF SkCreate, SkTypeOK, Item
    <3>2. SkInv'
      <4>1. sent' = [k \in 1 .. Len(sent') |-> base' + k]
        BY <2>1 DEF SkCreate
      <4>2. Holds' = 0
        BY <2>1 DEF SkCreate, Holds
      <4>3. Len(SendQueue') = 0 /\ Len(sent') = 0
        BY <2>1, EmptyFacts DEF SkCreate
      <4>4. QED
        BY <1>2, <1>4, <2>1, <4>1, <4>2, <4>3 DEF SkCreate, SkInv
    <3>3. QED
      BY <3>1, <3>2
  <2>2. CASE UNCHANGED skVars /\ protocol = "websocket"
    <3>1. SkTypeOK(Item)'
      BY <2>2, <1>1, SkTypeStays
    <3>2. /\ UNCHANGED <<s_pc, skt, SendQueue, ReSendBuf, data, sent, protocol>>
          /\ sent = <<>> /\ SendQueue = <<>> /\ s_pc = "none"
      BY <2>2, <1>1, <1>2 DEF skVars, SkInv
    <3>3. sent' = [k \in 1 .. Len(sent') |-> base' + k]
      BY <3>2
    <3>4. Len(SendQueue') = 0
      BY <3>2, EmptyFacts
    <3>5. skt' # "shut" => ReSendBuf' = 0
      BY <3>2, <1>1 DEF SkInv
    <3>6. QED
      BY <2>2, <3>1, <3>2, <3>3, <3>4, <3>5 DEF SkInv
  <2>3. QED
    BY <1>2, <2>1, <2>2
<1>9. TypeOK'
  BY <1>1, <1>2, <1>3, <1>4, <1>7, <1>8 DEF TypeOK, Item
<1>10. QED
  BY <1>5, <1>6, <1>7, <1>8, <1>9 DEF IInv

\* The other steps of the window.
LEMMA WindowStep ==
  ASSUME IInv, StartFails \/ Stop \/ Stopped
  PROVE  IInv'
<1>1. /\ GrcTypeOK /\ WsTypeOK(Item) /\ SkTypeOK(Item) /\ faults \in 0 .. MaxFaults
      /\ BufInv /\ WindowInv /\ WsInv /\ WsOrder /\ WsBound /\ SkInv
      /\ TypeOK
  BY DEF IInv, TypeOK
<1>2. /\ ui' = "stopped" => r_pc = "dead"
      /\ ui # "starting" /\ ui' \in {"stopped", "running", "stopping"}
      /\ UNCHANGED <<protocol, base, faults, r_pc, bufVars, connected, asking>>
      /\ grc_stop' \in {grc_stop, TRUE}
  BY DEF StartFails, Stop, Stopped, GrcStop, WsStop, SkStop, grcVars
<1>3. UNCHANGED <<handed, sender, info, puts>>
  BY <1>2 DEF bufVars
<1>4. GrcTypeOK'
  BY <1>1, <1>2, Zenon DEF GrcTypeOK, bufVars
<1>5. BufInv'
  BY <1>1, <1>2, BufStays
<1>6. WindowInv'
  BY <1>1, <1>2, <1>3 DEF WindowInv
<1>7. WsTypeOK(Item)' /\ WsInv' /\ WsOrder' /\ WsBound'
  <2>1. CASE UNCHANGED wsVars
    BY <2>1, <1>1, <1>3, WsStays, BoundStays, WsTypeStays
  <2>2. CASE WsStop
    <3>1. /\ ws' = "none" /\ period' \in {period, "off"}
          /\ UNCHANGED <<call, item, lock, waiting, drain, got, written, queue>>
      BY <2>2 DEF WsStop, callVars, drainVars
    <3>2. WsTypeOK(Item)'
      BY <1>1, <3>1, Zenon DEF WsTypeOK, Item
    <3>3. WsInv' /\ WsOrder' /\ WsBound'
      BY <1>1, <1>3, <3>1 DEF WsInv, WsOrder, WsBound
    <3>4. QED
      BY <3>2, <3>3
  <2>3. QED
    BY <2>1, <2>2 DEF StartFails, Stop, Stopped
<1>8. SkTypeOK(Item)' /\ SkInv'
  <2>1. CASE UNCHANGED skVars
    BY <2>1, <1>1, <1>2, <1>3, SkStays, SkTypeStays
  <2>2. CASE SkStop
    <3>1. /\ thread_stop' = TRUE
          /\ UNCHANGED <<s_pc, is_connected, skt, SendQueue, ReSendBuf, data, infds,
                         owed, answers, sent>>
      BY <2>2 DEF SkStop, exchangeVars
    <3>2. SkTypeOK(Item)'
      BY <1>1, <3>1, Zenon DEF SkTypeOK, Item
    <3>3. UNCHANGED <<protocol, base>>
      BY <1>2
    <3>4. SkInv'
      BY <1>1, <1>3, <3>1, <3>3 DEF SkInv, Holds
    <3>5. QED
      BY <3>2, <3>4
  <2>3. QED
    BY <2>1, <2>2 DEF StartFails, Stop, Stopped
<1>9. TypeOK'
  BY <1>1, <1>2, <1>4, <1>7, <1>8 DEF TypeOK, Item
<1>10. QED
  BY <1>5, <1>6, <1>7, <1>8, <1>9 DEF IInv

\* What the steps of the receiving thread alone leave to the rest.
LEMMA GrcStep ==
  ASSUME IInv, UNCHANGED otherThanGrc, GrcTypeOK', BufInv', WindowInv', handed' = handed,
         sender' = sender
  PROVE  IInv'
<1>1. /\ TypeOK /\ WsInv /\ WsOrder /\ WsBound /\ SkInv
      /\ WsTypeOK(Item) /\ SkTypeOK(Item)
      /\ UNCHANGED <<ui, protocol, base, wsVars, skVars, faults>>
  BY DEF IInv, TypeOK, otherThanGrc
<1>2. WsTypeOK(Item)' /\ WsInv' /\ WsOrder' /\ WsBound' /\ SkTypeOK(Item)' /\ SkInv'
  BY <1>1, WsStays, BoundStays, WsTypeStays, SkStays, SkTypeStays
<1>3. QED
  BY <1>1, <1>2 DEF IInv, TypeOK, Item

LEMMA NextStep ==
  ASSUME IInv, [Next]_vars
  PROVE  IInv'
<1>1. CASE (\/ Accept \/ SecondClient \/ GrcEnds \/ PutNone \/ AllHandedOver
            \/ ClientAsks \/ Read \/ Logout \/ Reset) /\ UNCHANGED otherThanGrc
  <2>1. GrcTypeOK' /\ BufInv' /\ WindowInv'
    BY <1>1, ReceiverStep
  <2>2. handed' = handed /\ sender' = sender
    BY <1>1 DEF Accept, SecondClient, GrcEnds, PutNone, AllHandedOver, ClientAsks,
       Read, Logout, Reset, bufVars
  <2>3. QED
    BY <1>1, <2>1, <2>2, GrcStep
<1>2. CASE Put /\ UNCHANGED otherThanGrc
  <2>1. GrcTypeOK' /\ BufInv' /\ WindowInv'
    BY <1>2, PutStep
  <2>2. handed' = handed /\ sender' = sender
    BY <1>2 DEF Put
  <2>3. QED
    BY <1>2, <2>1, <2>2, GrcStep
<1>3. CASE SendData
  BY <1>3, SendStep
<1>4. CASE WsCaller /\ UNCHANGED <<ui, protocol, base, grcVars, skVars>>
  BY <1>4, ThreadStep DEF WsCaller, Restart, StartHere, PutOrThrowAway, GetOldest,
     PutNewest, OnConnected, DrainTest, DrainGet, DrainWrite
<1>5. CASE Loop
  BY <1>5, ThreadStep DEF Loop, otherThanSender, WsLoop, Tick, WsConnect,
     WsConnectFails, CloseNoticed, OnConnected, DrainTest, DrainGet, DrainWrite
<1>6. CASE Sender
  BY <1>6, ThreadStep DEF Sender, otherThanSender, SkThread, SkConnect, Take, SkSend,
     ExchangeError, Answer, Extra, SkEnds
<1>7. CASE Answers
  BY <1>7, ThreadStep DEF Answers, otherThanSender
<1>8. CASE ServerCloses
  BY <1>8, ThreadStep DEF ServerCloses, otherThanSender, WsServerCloses, SkServerCloses
<1>9. CASE Start
  BY <1>9, StartStep
<1>10. CASE SetSender
  BY <1>10, SetSenderStep
<1>11. CASE StartFails \/ Stop \/ Stopped
  BY <1>11, WindowStep
<1>12. CASE UNCHANGED vars
  <2>1. UNCHANGED <<otherThanGrc, grcVars, bufVars, r_pc, handed, sender, ui, info, puts>>
    BY <1>12 DEF vars, otherThanGrc, grcVars, bufVars
  <2>2. GrcTypeOK' /\ BufInv'
    BY <2>1, GrcTypeStays, BufStays DEF IInv, TypeOK
  <2>3. WindowInv'
    BY <2>1 DEF IInv, WindowInv
  <2>4. QED
    BY <2>1, <2>2, <2>3, GrcStep
<1>13. QED
  BY <1>1, <1>2, <1>3, <1>4, <1>5, <1>6, <1>7, <1>8, <1>9, <1>10, <1>11, <1>12
     DEF Next, Receiver, GnuRadio

-----------------------------------------------------------------------------
(* The theorems.                                                           *)

\* The invariant holds in every state of the proxy's two threads, its loop and
\* its window (core/*.py and mun_downlink_proxy.py).
THEOREM Inductive == Spec => []IInv
<1>1. Init => IInv
  BY InitIInv
<1>2. IInv /\ [Next]_vars => IInv'
  BY NextStep
<1>3. QED
  BY <1>1, <1>2, PTL DEF Spec

\* Every variable keeps its type: the queue of
\* connection_to_server_websocket.py keeps within its maximum although the test
\* for room and the put are two steps.
THEOREM TypeCorrect == Spec => []TypeOK
<1>1. IInv => TypeOK
  BY DEF IInv
<1>2. QED
  BY <1>1, Inductive, PTL

\* Every reading is handed to a sender once and in order, and shows its own data
\* unless it came before there was a sender (core/data.py).
THEOREM HandedExactlyAlways == Spec => []HandedExactly
<1>1. IInv => HandedExactly
  <2> SUFFICES ASSUME IInv PROVE HandedExactly
    OBVIOUS
  <2>1. DOMAIN handed = 1 .. Len(handed)
    BY ElementFacts DEF IInv, TypeOK, GrcTypeOK
  <2>2. QED
    BY <2>1 DEF IInv, BufInv, Right, HandedExactly
<1>2. QED
  BY <1>1, Inductive, PTL

\* The server gets the items of a sender in order and none twice, and over the
\* plain socket without a gap (connection_to_server_*.py).  The websocket's part
\* takes the lock of start() to hold across both threads (see WebSocketClient).
THEOREM InOrderAlways == Spec => []InOrder
<1>1. IInv => InOrder
  <2> SUFFICES ASSUME IInv PROVE InOrder
    OBVIOUS
  <2>1. DOMAIN written = 1 .. Len(written)
    BY ElementFacts DEF IInv, TypeOK, WsTypeOK
  <2>2. \A i, j \in DOMAIN written : i < j => written[i] < written[j]
    BY <2>1 DEF IInv, WsOrder
  <2>3. sent = [k \in 1 .. Len(sent) |-> base + k]
    BY DEF IInv, SkInv
  <2>4. QED
    BY <2>2, <2>3 DEF InOrder
<1>2. QED
  BY <1>1, Inductive, PTL
=============================================================================

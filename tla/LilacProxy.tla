----------------------------- MODULE LilacProxy -----------------------------
(***************************************************************************)
(* The telemetry proxy of the LilacSat-1 and LilacSat-2 ground stations    *)
(* (examples/LilacSat-?/proxy_publish/LilacProxyCore.py, the same in both, *)
(* and StartProxy of lilacsat_proxy.py).  A thread takes packets from GNU  *)
(* Radio and posts them to a queue, a second keeps a connection to the     *)
(* server and a third, the sender, moves the packets from the queue to the *)
(* connection; they share sock and StateNow without a lock, and the window *)
(* starts and stops them all.                                              *)
(*                                                                         *)
(* Packets are numbered as they are posted.  The queue is external: a FIFO *)
(* that holds the packets taken + 1 .. posted.  Whether the peer accepts,  *)
(* fails or closes a connection is up to the peer, MaxFaults times in all. *)
(***************************************************************************)
EXTENDS Integers, Sequences

CONSTANTS
  MaxPackets,  \* packets posted in a run of the proxy
  MaxFaults,   \* connections the server refuses or closes
  MaxTries     \* failed attempts before StateNow is 0 again: 10 in the code

ASSUME ConstantsAssumption ==
  MaxPackets \in Nat /\ MaxFaults \in Nat /\ MaxTries \in Nat

VARIABLES
  ui,         \* the window: "stopped", "running" or "stopping"
  told,       \* the threads whose thread_stop is set
  posted,     \* packets put into SendQueue
  taken,      \* packets the sender took out of it
  hand,       \* the sender's local data, 0 if none
  ReSendBuf,  \* a packet whose send failed, 0 if none
  sent,       \* the packets send accepted
  s_pc,       \* the sender: "top", "select", "send" or "dead"
  sock,       \* None, or the state of the socket
  StateNow,   \* of the connection: 0 idle, 1 connecting, 2 in use
  TryTimeOut, \* failed attempts
  l_pc,       \* where the connection's thread is
  x_pc,       \* where the listening thread is
  client,     \* GNU Radio: "away", "asking", "joined" or "gone"
  faults      \* refused and closed connections so far

sendVars == <<taken, hand, ReSendBuf, sent, s_pc>>
linkVars == <<sock, StateNow, TryTimeOut, l_pc>>
listenVars == <<x_pc, client>>
vars == <<ui, told, posted, sendVars, linkVars, listenVars, faults>>

None == "none"
Threads == {"sender", "link", "listener"}

TypeOK ==
  /\ ui \in {"stopped", "running", "stopping"}
  /\ told \in SUBSET Threads
  /\ posted \in 0 .. MaxPackets /\ taken \in 0 .. posted
  /\ hand \in 0 .. taken /\ ReSendBuf \in 0 .. taken
  /\ sent \in Seq(1 .. MaxPackets)
  /\ s_pc \in {"top", "select", "send", "dead"}
  /\ sock \in {None, "new", "open", "shut", "closed"}
  /\ StateNow \in 0 .. 2 /\ TryTimeOut \in 0 .. MaxTries + 1
  /\ l_pc \in {"top", "connect", "connected", "failed", "recv", "closing",
               "closed", "wait", "dead"}
  /\ x_pc \in {"bind", "listen", "accept", "serve", "read", "dead"}
  /\ client \in {"away", "asking", "joined", "gone"}
  /\ faults \in 0 .. MaxFaults

Init ==
  /\ ui = "stopped" /\ told = {} /\ faults = 0
  /\ posted = 0 /\ taken = 0 /\ hand = 0 /\ ReSendBuf = 0 /\ sent = <<>>
  /\ sock = None /\ StateNow = 0 /\ TryTimeOut = 0
  /\ s_pc = "dead" /\ l_pc = "dead" /\ x_pc = "dead" /\ client = "away"

-----------------------------------------------------------------------------
(* The sender: SocketSender.run.                                           *)

\* The faulty variants of this module are what a mistake in the code would
\* make of an operation; Next does not use them.
\* The packet whose send failed is no reason to send.
HasData_queueOnly == taken < posted

HasData == taken < posted \/ ReSendBuf # 0

\* One turn of the loop up to select.  What it saw of sock and StateNow is
\* not looked at again.
Look ==
  /\ s_pc = "top"
  /\ "sender" \notin told
  /\ sock # None /\ StateNow = 2
  /\ HasData
  /\ s_pc' = "select"
  /\ UNCHANGED <<ui, told, posted, taken, hand, ReSendBuf, sent, linkVars,
                 listenVars, faults>>

\* select raises on None and on a closed socket, and times out while the
\* connection is being made; a socket not connected counts as writable.
SelectFails ==
  /\ s_pc = "select"
  /\ sock \in {None, "closed", "new"}
  /\ s_pc' = "top"
  /\ UNCHANGED <<ui, told, posted, taken, hand, ReSendBuf, sent, linkVars,
                 listenVars, faults>>

\* ReSendBuf is not reset.
Select_keepsResend ==
  /\ s_pc = "select"
  /\ sock \in {"new", "open", "shut"}
  /\ hand' = IF ReSendBuf # 0 THEN ReSendBuf ELSE taken + 1
  /\ taken' = IF ReSendBuf # 0 THEN taken ELSE taken + 1
  /\ s_pc' = "send"
  /\ UNCHANGED <<ui, told, posted, ReSendBuf, sent, linkVars, listenVars, faults>>

\* The packet that failed goes first.
Select ==
  /\ s_pc = "select"
  /\ sock \in {"new", "open", "shut"}
  /\ \/ /\ ReSendBuf # 0
        /\ hand' = ReSendBuf /\ ReSendBuf' = 0
        /\ UNCHANGED taken
     \/ /\ ReSendBuf = 0
        /\ hand' = taken + 1 /\ taken' = taken + 1
        /\ UNCHANGED ReSendBuf
  /\ s_pc' = "send"
  /\ UNCHANGED <<ui, told, posted, sent, linkVars, listenVars, faults>>

Send ==
  /\ s_pc = "send"
  /\ sock \in {"open", "shut"}
  /\ sent' = Append(sent, hand)
  /\ hand' = 0
  /\ s_pc' = "top"
  /\ UNCHANGED <<ui, told, posted, taken, ReSendBuf, linkVars, listenVars, faults>>

SendError ==
  /\ s_pc = "send"
  /\ sock \in {"new", "shut", "closed"}
  /\ ReSendBuf' = hand
  /\ hand' = 0
  /\ s_pc' = "top"
  /\ UNCHANGED <<ui, told, posted, taken, sent, linkVars, listenVars, faults>>

\* None has no send: the AttributeError is no socket.error and ends the
\* thread, with the packet in its hand.
SenderDies ==
  /\ s_pc = "send"
  /\ sock = None
  /\ s_pc' = "dead"
  /\ UNCHANGED <<ui, told, posted, taken, hand, ReSendBuf, sent, linkVars,
                 listenVars, faults>>

SenderStops ==
  /\ s_pc = "top"
  /\ "sender" \in told
  /\ s_pc' = "dead"
  /\ UNCHANGED <<ui, told, posted, taken, hand, ReSendBuf, sent, linkVars,
                 listenVars, faults>>

Sender ==
  Look \/ SelectFails \/ Select \/ Send \/ SendError \/ SenderDies \/ SenderStops

-----------------------------------------------------------------------------
(* The connection to the server: ProxyConnectInterface.run, AutoConnect    *)
(* being False.                                                            *)

linkElse == <<ui, told, posted, sendVars, listenVars>>

\* StateNow is 0: only what is in the queue is a reason to connect.
Wake ==
  /\ l_pc = "top" /\ StateNow = 0
  /\ "link" \notin told
  /\ taken < posted
  /\ TryTimeOut' = 0
  /\ StateNow' = 1
  /\ UNCHANGED <<linkElse, sock, l_pc, faults>>

\* socket.socket() that fails sleeps and tries again: that changes nothing, and
\* it is taken to succeed in the end.
CreateSocket ==
  /\ l_pc = "top" /\ StateNow = 1
  /\ "link" \notin told
  /\ sock' = "new"
  /\ l_pc' = "connect"
  /\ UNCHANGED <<linkElse, StateNow, TryTimeOut, faults>>

Connect ==
  /\ l_pc = "connect"
  /\ sock' = "open"
  /\ l_pc' = "connected"
  /\ UNCHANGED <<linkElse, StateNow, TryTimeOut, faults>>

Connected ==
  /\ l_pc = "connected"
  /\ StateNow' = 2
  /\ l_pc' = "top"
  /\ UNCHANGED <<linkElse, sock, TryTimeOut, faults>>

ConnectFails ==
  /\ l_pc = "connect"
  /\ faults < MaxFaults /\ faults' = faults + 1
  /\ sock' = "closed"
  /\ l_pc' = "failed"
  /\ UNCHANGED <<linkElse, StateNow, TryTimeOut>>

\* StateNow is never put back.
GiveUpOrRetry_forever ==
  /\ l_pc = "failed"
  /\ sock' = None
  /\ TryTimeOut' = TryTimeOut + 1
  /\ l_pc' = "top"
  /\ UNCHANGED <<linkElse, StateNow, faults>>

\* Counted after the failure: StateNow is 0 after MaxTries + 1 of them.
GiveUpOrRetry ==
  /\ l_pc = "failed"
  /\ sock' = None
  /\ TryTimeOut' = TryTimeOut + 1
  /\ StateNow' = IF TryTimeOut' > MaxTries THEN 0 ELSE StateNow
  /\ l_pc' = "top"
  /\ UNCHANGED <<linkElse, faults>>

ServerCloses ==
  /\ sock = "open"
  /\ faults < MaxFaults /\ faults' = faults + 1
  /\ sock' = "shut"
  /\ UNCHANGED <<linkElse, StateNow, TryTimeOut, l_pc>>

\* thread_stop is tested, then select waits up to five seconds.
AwaitData ==
  /\ l_pc = "top" /\ StateNow = 2
  /\ "link" \notin told
  /\ l_pc' = "recv"
  /\ UNCHANGED <<linkElse, sock, StateNow, TryTimeOut, faults>>

\* No data, or data that nobody wants.
DataOrTimeout ==
  /\ l_pc = "recv"
  /\ sock = "open"
  /\ l_pc' = "top"
  /\ UNCHANGED <<linkElse, sock, StateNow, TryTimeOut, faults>>

\* recv returned nothing or raised: close, sock = None and StateNow = 0 are
\* three steps the sender may see between.
RecvEnds ==
  /\ l_pc = "recv"
  /\ sock = "shut"
  /\ sock' = "closed"
  /\ l_pc' = "closing"
  /\ UNCHANGED <<linkElse, StateNow, TryTimeOut, faults>>

ForgetSocket ==
  /\ l_pc = "closing"
  /\ sock' = None
  /\ l_pc' = "closed"
  /\ UNCHANGED <<linkElse, StateNow, TryTimeOut, faults>>

BackToIdle ==
  /\ l_pc = "closed"
  /\ StateNow' = 0
  /\ l_pc' = "top"
  /\ UNCHANGED <<linkElse, sock, TryTimeOut, faults>>

LinkStops ==
  /\ l_pc = "top"
  /\ "link" \in told
  /\ l_pc' = "wait"
  /\ UNCHANGED <<linkElse, sock, StateNow, TryTimeOut, faults>>

\* The thread outlives its sender.
LinkEnds ==
  /\ l_pc = "wait"
  /\ s_pc = "dead"
  /\ l_pc' = "dead"
  /\ UNCHANGED <<linkElse, sock, StateNow, TryTimeOut, faults>>

Link ==
  Wake \/ CreateSocket \/ Connect \/ Connected \/ ConnectFails \/ GiveUpOrRetry
  \/ AwaitData \/ DataOrTimeout \/ RecvEnds \/ ForgetSocket \/ BackToIdle \/ LinkStops \/ LinkEnds

-----------------------------------------------------------------------------
(* GNU Radio's side: ProxyListenInterface.run and the handler.  The sender *)
(* of this connection has nothing to send and ends with the thread.        *)

listenElse == <<ui, told, sendVars, linkVars, faults>>

Bind ==
  /\ x_pc = "bind"
  /\ "listener" \notin told
  /\ x_pc' = "listen"
  /\ UNCHANGED <<listenElse, posted, client>>

ClientAsks ==
  /\ x_pc \in {"listen", "accept"} /\ client = "away"
  /\ client' = "asking"
  /\ UNCHANGED <<listenElse, posted, x_pc>>

\* The wait for a client does not look at thread_stop.
AwaitClient_always ==
  /\ x_pc = "listen"
  /\ x_pc' = "accept"
  /\ UNCHANGED <<listenElse, posted, client>>

AwaitClient ==
  /\ x_pc = "listen"
  /\ "listener" \notin told
  /\ x_pc' = "accept"
  /\ UNCHANGED <<listenElse, posted, client>>

NoClient ==
  /\ x_pc = "accept" /\ client = "away"
  /\ x_pc' = "listen"
  /\ UNCHANGED <<listenElse, posted, client>>

\* A client that has hung up meanwhile is still accepted.
Accept ==
  /\ x_pc = "accept" /\ client # "away"
  /\ client' = IF client = "asking" THEN "joined" ELSE client
  /\ x_pc' = "serve"
  /\ UNCHANGED <<listenElse, posted>>

AwaitRead ==
  /\ x_pc = "serve"
  /\ "listener" \notin told
  /\ x_pc' = "read"
  /\ UNCHANGED <<listenElse, posted, client>>

NoRead ==
  /\ x_pc = "read" /\ client = "joined"
  /\ x_pc' = "serve"
  /\ UNCHANGED <<listenElse, posted, client>>

\* handle_D_L2RA: a packet for the server's queue.
Receive ==
  /\ x_pc = "read" /\ client = "joined"
  /\ posted < MaxPackets
  /\ posted' = posted + 1
  /\ x_pc' = "serve"
  /\ UNCHANGED <<listenElse, client>>

ClientHangsUp ==
  /\ client \in {"asking", "joined"}
  /\ client' = "gone"
  /\ UNCHANGED <<listenElse, posted, x_pc>>

ClientLeft ==
  /\ x_pc = "read" /\ client = "gone"
  /\ client' = "away"
  /\ x_pc' = "bind"
  /\ UNCHANGED <<listenElse, posted>>

ListenerEnds ==
  /\ x_pc \in {"bind", "listen", "serve"}
  /\ "listener" \in told
  /\ x_pc' = "dead"
  /\ UNCHANGED <<listenElse, posted, client>>

Listener ==
  Bind \/ AwaitClient \/ NoClient \/ Accept \/ AwaitRead \/ NoRead \/ Receive
  \/ ClientLeft \/ ListenerEnds

-----------------------------------------------------------------------------
(* The window: StartProxy, which also stops.                               *)

\* New objects for everything.
Start ==
  /\ ui = "stopped" /\ ui' = "running"
  /\ told' = {}
  /\ posted' = 0 /\ taken' = 0 /\ hand' = 0 /\ ReSendBuf' = 0 /\ sent' = <<>>
  /\ sock' = None /\ StateNow' = 0 /\ TryTimeOut' = 0
  /\ s_pc' = "top" /\ l_pc' = "top" /\ x_pc' = "bind" /\ client' = "away"
  /\ UNCHANGED faults

\* Each stop() tells the sender first, then its own thread.
Stop ==
  /\ ui = "running"
  /\ ui' = "stopping"
  /\ told' = {"sender"}
  /\ UNCHANGED <<posted, sendVars, linkVars, listenVars, faults>>

StopNext ==
  /\ ui = "stopping"
  /\ \/ "link" \notin told /\ told' = told \cup {"link"}
     \/ "link" \in told /\ "listener" \notin told /\ told' = told \cup {"listener"}
  /\ UNCHANGED <<ui, posted, sendVars, linkVars, listenVars, faults>>

Stopped ==
  /\ ui = "stopping"
  /\ {"link", "listener"} \subseteq told
  /\ l_pc = "dead" /\ x_pc = "dead"
  /\ ui' = "stopped"
  /\ UNCHANGED <<told, posted, sendVars, linkVars, listenVars, faults>>

Next ==
  \/ Sender \/ Link \/ Listener
  \/ ServerCloses \/ ClientAsks \/ ClientHangsUp
  \/ Start \/ Stop \/ StopNext \/ Stopped

\* Every thread runs on; the window finishes what it has begun.
Fairness ==
  /\ WF_vars(Sender) /\ WF_vars(Link) /\ WF_vars(Listener)
  /\ WF_vars(StopNext \/ Stopped)

Spec == Init /\ [][Next]_vars /\ Fairness

-----------------------------------------------------------------------------
(* Properties.                                                             *)

\* Whatever the sender saw of a socket that the other thread closed or
\* replaced meanwhile, the packets taken from the queue are the ones sent, in
\* order and once each, and at most one more that the sender holds, in its hand
\* or as the one that failed: only its death can lose a packet, and only that.
Conserved ==
  /\ sent = [k \in 1 .. Len(sent) |-> k]
  /\ taken <= Len(sent) + 1
  /\ {hand, ReSendBuf} \ {0} = Len(sent) + 1 .. taken

\* A packet waits in ReSendBuf, nothing is left in the queue, and without that
\* run() makes no connection: it waits for the next packet to be posted.
Stranded(k) == ReSendBuf = k /\ taken = posted /\ StateNow = 0

\* Refused and broken connections delay a packet and do no more: it is sent,
\* unless the sender dies on the None that sock was set to behind its back, the
\* proxy is stopped, or it is the last packet and its send failed.
Served ==
  \A k \in 1 .. MaxPackets :
    posted >= k ~> Len(sent) >= k \/ s_pc = "dead" \/ ui # "running" \/ Stranded(k)

\* The wait for the threads in StartProxy comes to its end, wherever they are.
StopEnds == ui = "stopping" ~> ui = "stopped"
=============================================================================

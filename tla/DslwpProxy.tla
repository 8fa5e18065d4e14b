----------------------------- MODULE DslwpProxy -----------------------------
(***************************************************************************)
(* The DSLWP downlink proxy with one port                                  *)
(* (examples/BY70-2/DSLWP-Downlink-Proxy/mun_downlink_proxy.py): the thread*)
(* that receives from GNU Radio, its buffer, the connection to the server, *)
(* a websocket or a plain socket, and the window that starts and stops     *)
(* them.  The receiving thread itself runs SendData, so that whatever      *)
(* SendData waits for it waits for.                                        *)
(***************************************************************************)
EXTENDS GrcLink, WebSocketClient, SocketSender

VARIABLES
  ui,       \* "stopped", "starting", "running" or "stopping"
  protocol, \* "websocket" or "socket", as the port is set up
  base      \* readings handed to the senders of earlier starts

vars == <<ui, protocol, base, grcVars, wsVars, skVars, faults>>

Item == 1 .. MaxData

TypeOK ==
  /\ ui \in {"stopped", "starting", "running", "stopping"}
  /\ protocol \in {"websocket", "socket"}
  /\ base \in 0 .. MaxData
  /\ GrcTypeOK /\ WsTypeOK(Item) /\ SkTypeOK(Item)
  /\ faults \in 0 .. MaxFaults

Init ==
  /\ ui = "stopped" /\ protocol \in {"websocket", "socket"} /\ base = 0
  /\ GrcInit /\ WsInit /\ SkInit
  /\ faults = 0

-----------------------------------------------------------------------------
(* The receiving thread.                                                   *)

otherThanGrc == <<ui, protocol, base, wsVars, skVars, faults>>

\* A reading goes to whatever is the sender now; what an old one does with it
\* is not followed.
SendData ==
  /\ call = "idle"
  /\ HandOver
  /\ LET i == Len(handed') IN
       \/ sender = "old" /\ UNCHANGED <<wsVars, skVars, faults>>
       \/ sender = "new" /\ protocol = "websocket" /\ WsSendData(i) /\ UNCHANGED skVars
       \/ sender = "new" /\ protocol = "socket" /\ SkSendData(i) /\ UNCHANGED wsVars
  /\ UNCHANGED <<ui, protocol, base>>

Receiver ==
  \/ /\ \/ Accept \/ SecondClient \/ GrcEnds \/ Put \/ PutNone
        \/ call = "idle" /\ AllHandedOver
     /\ UNCHANGED otherThanGrc
  \/ SendData
  \/ WsCaller /\ UNCHANGED <<ui, protocol, base, grcVars, skVars>>

GnuRadio ==
  /\ ClientAsks \/ Read \/ Logout \/ Reset
  /\ UNCHANGED otherThanGrc

-----------------------------------------------------------------------------
(* The threads behind the sender.                                          *)

otherThanSender == <<ui, protocol, base, grcVars>>

Loop == WsLoop /\ UNCHANGED <<otherThanSender, skVars>>

Sender == SkThread /\ UNCHANGED <<otherThanSender, wsVars>>

Answers == ServerAnswers /\ UNCHANGED <<otherThanSender, wsVars, faults>>

ServerCloses ==
  /\ \/ WsServerCloses /\ UNCHANGED skVars
     \/ SkServerCloses /\ UNCHANGED wsVars
  /\ UNCHANGED otherThanSender

-----------------------------------------------------------------------------
(* The window: start_proxy and stop_proxy.                                 *)

\* The receiving thread runs before there is a new sender.
Start ==
  /\ ui = "stopped" /\ ui' = "starting"
  /\ GrcStart
  /\ UNCHANGED <<protocol, base, wsVars, skVars, faults>>

\* A server that is not in the list, or a field that is no number: the exception
\* leaves proxy_running True with no thread started.
StartFails ==
  /\ ui = "stopped" /\ ui' = "running"
  /\ UNCHANGED <<protocol, base, grcVars, wsVars, skVars, faults>>

\* A new client, or a new socket and its thread; set_sender.
SetSender ==
  /\ ui = "starting" /\ ui' = "running"
  /\ sender' = "new"
  /\ base' = Len(handed)
  /\ IF protocol = "websocket"
       THEN WsCreate /\ UNCHANGED skVars
       ELSE SkCreate /\ UNCHANGED wsVars
  /\ UNCHANGED <<protocol, r_pc, grc_stop, connected, asking, puts, early, info,
                 raw_data, data_buff, handed, faults>>

Stop ==
  /\ ui = "running" /\ ui' = "stopping"
  /\ GrcStop
  /\ UNCHANGED <<protocol, base, wsVars, skVars, faults>>

\* The window waits for the receiving thread and only then stops the sender.
Stopped ==
  /\ ui = "stopping"
  /\ r_pc = "dead"
  /\ ui' = "stopped"
  /\ IF protocol = "websocket"
       THEN WsStop /\ UNCHANGED skVars
       ELSE SkStop /\ UNCHANGED wsVars
  /\ UNCHANGED <<protocol, base, grcVars, faults>>

Next ==
  \/ Receiver \/ GnuRadio
  \/ Loop \/ Sender \/ Answers \/ ServerCloses
  \/ Start \/ StartFails \/ SetSender \/ Stop \/ Stopped

\* The threads run on, the server answers, and the window finishes what it has
\* begun.
Fairness ==
  /\ WF_vars(Receiver) /\ WF_vars(Loop) /\ WF_vars(Sender) /\ WF_vars(Answers)
  /\ WF_vars(SetSender) /\ WF_vars(Stopped)

Spec == Init /\ [][Next]_vars /\ Fairness

-----------------------------------------------------------------------------
(* Properties.                                                             *)

\* Readings are handed to a sender in the order they came, each as it was, with
\* one exception: the references of those that came before there was a sender
\* all show the last of them, or the one that came after and set them off.
HandedExactly ==
  /\ Len(handed) + Len(data_buff) = puts
  /\ \A i \in DOMAIN handed :
       IF i > early THEN handed[i] = i ELSE handed[i] \in {early, early + 1}

\* Two threads move the queue of the websocket, drop its oldest item and lose
\* what they hold when the connection breaks, and yet the server gets the items
\* in order and none twice, provided that the lock admits one start() at a time
\* in both threads together.  Over the plain socket it gets all of them up to
\* some item, although a failed exchange is repeated.
InOrder ==
  /\ \A i, j \in DOMAIN written : i < j => written[i] < written[j]
  /\ sent = [k \in 1 .. Len(sent) |-> base + k]

Waits(i) == \/ \E k \in DOMAIN queue : queue[k] = i
            \/ \E k \in DOMAIN SendQueue : SendQueue[k] = i

\* The socket's thread has ended, has a broken connection that it cannot make
\* again, or waits in its second recv for what it has read already.
SocketStuck ==
  \/ s_pc = "dead"
  \/ skt = "shut" /\ ~is_connected
  \/ s_pc = "extra" /\ skt = "open" /\ answers = 0 /\ owed = 0

SenderStopped == period = "off" \/ thread_stop

\* What waits for the server does not wait for ever: neither thread blocks the
\* other on the queue they share, and refused and closed websockets are made
\* again, as long as the sender is not stopped.
Delivered ==
  \A i \in Item : Waits(i) ~> ~Waits(i) \/ SenderStopped \/ SocketStuck

\* stop_proxy comes to its end, unless the receiving thread is in a recv that
\* nothing ends or in the get of a queue that the loop has emptied.
StopEnds == ui = "stopping" ~> ui = "stopped" \/ r_pc = "recv" \/ call = "get"

\* "Websocket queue received maximum, throw away old data": SendData goes on,
\* with the oldest item gone.
ThrowsAway == call = "get" ~> call # "get"
=============================================================================

---------------------------- MODULE SocketSender ----------------------------
(***************************************************************************)
(* The plain socket connection of the DSLWP proxy to its server            *)
(* (core/connection_to_server_socket.py): a queue, and a thread that sends *)
(* an item, waits for the server's answer, and reads once more if there    *)
(* was something to read before it sent.                                   *)
(*                                                                         *)
(* Items are numbered as they are handed to SendData.  The server is       *)
(* external: it answers what it receives, in one segment or in two, and    *)
(* may refuse or close the connection.                                     *)
(***************************************************************************)
EXTENDS Integers, Sequences, Faults

VARIABLES
  s_pc,         \* "none" before start(), "top", "send", "answer", "extra" or "dead"
  thread_stop,
  is_connected,
  skt,          \* the socket: "new", "open" or "shut" by the server
  SendQueue,
  ReSendBuf,    \* the item whose exchange failed, 0 if none
  data,         \* the item being exchanged, 0 if none
  infds,        \* select found the socket readable
  owed,         \* segments the server has still to send
  answers,      \* segments that wait to be read
  sent          \* the items sent while the server had the connection open

exchangeVars == <<infds, owed, answers>>
skVars == <<s_pc, thread_stop, is_connected, skt, SendQueue, ReSendBuf, data,
            exchangeVars, sent>>

SkTypeOK(Item) ==
  /\ s_pc \in {"none", "top", "send", "answer", "extra", "dead"}
  /\ thread_stop \in BOOLEAN /\ is_connected \in BOOLEAN /\ infds \in BOOLEAN
  /\ skt \in {"new", "open", "shut"}
  /\ SendQueue \in Seq(Item)
  /\ ReSendBuf \in Item \cup {0} /\ data \in Item \cup {0}
  /\ owed \in Nat /\ answers \in Nat
  /\ sent \in Seq(Item)

SkInit ==
  /\ s_pc = "none" /\ thread_stop = FALSE /\ is_connected = FALSE /\ skt = "new"
  /\ SendQueue = <<>> /\ ReSendBuf = 0 /\ data = 0 /\ infds = FALSE
  /\ owed = 0 /\ answers = 0 /\ sent = <<>>

\* A new sender: __init__, create_connection and start.
SkCreate ==
  /\ s_pc' = "top" /\ thread_stop' = FALSE /\ is_connected' = FALSE /\ skt' = "new"
  /\ SendQueue' = <<>> /\ ReSendBuf' = 0 /\ data' = 0 /\ infds' = FALSE
  /\ owed' = 0 /\ answers' = 0 /\ sent' = <<>>

\* The packing of the data leaves its number.
SkSendData(i) ==
  /\ SendQueue' = Append(SendQueue, i)
  /\ UNCHANGED <<s_pc, thread_stop, is_connected, skt, ReSendBuf, data,
                 exchangeVars, sent, faults>>

\* A socket that has been connected once cannot be connected again.
SkConnect ==
  /\ s_pc = "top" /\ ~thread_stop
  /\ ~is_connected
  /\ skt = "new"
  /\ skt' = "open"
  /\ is_connected' = TRUE
  /\ UNCHANGED <<s_pc, thread_stop, SendQueue, ReSendBuf, data, exchangeVars,
                 sent, faults>>

\* One turn of the loop up to the taking of the data: select sees what can be
\* read now.
Take ==
  /\ s_pc = "top" /\ ~thread_stop
  /\ is_connected
  /\ \/ /\ ReSendBuf # 0
        /\ data' = ReSendBuf /\ ReSendBuf' = 0
        /\ UNCHANGED SendQueue
     \/ /\ ReSendBuf = 0 /\ SendQueue # <<>>
        /\ data' = Head(SendQueue) /\ SendQueue' = Tail(SendQueue)
        /\ UNCHANGED ReSendBuf
  /\ infds' = (answers > 0 \/ skt = "shut")
  /\ s_pc' = "send"
  /\ UNCHANGED <<thread_stop, is_connected, skt, owed, answers, sent, faults>>

\* What comes after the exchange.
Afterwards == IF infds THEN "extra" ELSE "top"

\* A server that has closed gets nothing and does not answer.
SkSend ==
  /\ s_pc = "send"
  /\ s_pc' = "answer"
  /\ \/ /\ skt = "open"
        /\ sent' = Append(sent, data)
        /\ \E segments \in 1 .. 2 : owed' = owed + segments
     \/ /\ skt = "shut"
        /\ UNCHANGED <<sent, owed>>
  /\ UNCHANGED <<thread_stop, is_connected, skt, SendQueue, ReSendBuf, data,
                 infds, answers, faults>>

\* The exception of the send or of the recv behind it.
ExchangeError ==
  /\ s_pc \in {"send", "answer"}
  /\ skt = "shut"
  /\ ReSendBuf' = data
  /\ data' = 0
  /\ s_pc' = Afterwards
  /\ UNCHANGED <<thread_stop, is_connected, skt, SendQueue, exchangeVars, sent,
                 faults>>

\* recv takes all that is there; the end of the connection passes for an answer.
Answer ==
  /\ s_pc = "answer"
  /\ answers > 0 \/ skt = "shut"
  /\ answers' = 0
  /\ data' = 0
  /\ s_pc' = Afterwards
  /\ UNCHANGED <<thread_stop, is_connected, skt, SendQueue, ReSendBuf, infds,
                 owed, sent, faults>>

\* The second recv, outside the try: it waits if what made the socket readable
\* has been read as the answer.
Extra ==
  /\ s_pc = "extra"
  /\ \/ /\ answers > 0
        /\ answers' = 0
        /\ s_pc' = "top"
        /\ UNCHANGED is_connected
     \/ /\ answers = 0 /\ skt = "shut"
        /\ \/ is_connected' = FALSE /\ s_pc' = "top"
           \/ s_pc' = "dead" /\ UNCHANGED is_connected
        /\ UNCHANGED answers
  /\ UNCHANGED <<thread_stop, skt, SendQueue, ReSendBuf, data, infds, owed, sent,
                 faults>>

SkEnds ==
  /\ s_pc = "top" /\ thread_stop
  /\ s_pc' = "dead"
  /\ UNCHANGED <<thread_stop, is_connected, skt, SendQueue, ReSendBuf, data,
                 exchangeVars, sent, faults>>

\* stop(), in the window's thread.
SkStop ==
  /\ thread_stop' = TRUE
  /\ UNCHANGED <<s_pc, is_connected, skt, SendQueue, ReSendBuf, data,
                 exchangeVars, sent, faults>>

-----------------------------------------------------------------------------
(* The server.                                                             *)

ServerAnswers ==
  /\ owed > 0
  /\ owed' = owed - 1 /\ answers' = answers + 1
  /\ UNCHANGED <<s_pc, thread_stop, is_connected, skt, SendQueue, ReSendBuf, data,
                 infds, sent, faults>>

SkServerCloses ==
  /\ skt = "open"
  /\ Fault
  /\ skt' = "shut" /\ owed' = 0
  /\ UNCHANGED <<s_pc, thread_stop, is_connected, SendQueue, ReSendBuf, data,
                 infds, answers, sent>>

SkThread ==
  SkConnect \/ Take \/ SkSend \/ ExchangeError \/ Answer \/ Extra \/ SkEnds
=============================================================================

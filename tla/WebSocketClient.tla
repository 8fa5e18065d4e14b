-------------------------- MODULE WebSocketClient ---------------------------
(***************************************************************************)
(* The websocket connection of the DSLWP proxy to its server               *)
(* (core/connection_to_server_websocket.py).  Two threads use it: the one  *)
(* that receives from GNU Radio calls SendData, and tornado's loop runs    *)
(* the start() coroutine once a second, under a lock, connects and moves   *)
(* the queue to the connection.  The first part of start() also runs in    *)
(* the caller's thread.  Both threads use the bounded queue, which no lock *)
(* protects across two of its operations.                                  *)
(*                                                                         *)
(* Items are numbered as they are handed to SendData.  Queue.Queue and     *)
(* tornado are external: get waits until the queue has an element, and a   *)
(* call of tornado's (acquire and release of the lock, websocket_connect,  *)
(* write_message) is one step, in whichever thread it is made.  For the    *)
(* lock this is an ASSUMPTION THAT TORNADO DOES NOT GRANT: locks.Lock is   *)
(* made for the coroutines of one thread, and two threads that test it at  *)
(* once might both take it.  Two drains at a time are therefore not in the *)
(* model, and the order of what is written rests on that.                  *)
(***************************************************************************)
EXTENDS Integers, Sequences, Faults

CONSTANT MaxQueue   \* maxsize of the queue: 100 in the code

ASSUME MaxQueueAssumption == MaxQueue \in Nat \ {0}

VARIABLES
  call,     \* where the caller is in SendData
  item,     \* the caller's data, 0 if none
  ws,      \* None, or the state of the connection
  lock,     \* "free", or who holds it: a connection attempt or a drain
  waiting,  \* at least one start() is waiting for the lock
  period,  \* the periodic callback: "none", "on" or "off"
  drain,    \* where on_connected is
  got,      \* what on_connected took out of the queue, 0 if none
  queue,
  written   \* the items that write_message accepted

callVars == <<call, item>>
startVars == <<ws, lock, waiting, period>>
drainVars == <<drain, got, written>>
wsVars == <<callVars, startVars, drainVars, queue>>

WsTypeOK(Item) ==
  /\ call \in {"idle", "restart", "start", "drain", "full", "get", "put"}
  /\ item \in Item \cup {0} /\ got \in Item \cup {0}
  /\ ws \in {"none", "open", "shut"}
  /\ lock \in {"free", "connect", "loop", "caller"}
  /\ waiting \in BOOLEAN
  /\ period \in {"none", "on", "off"}
  /\ drain \in {"none", "test", "get", "write"}
  /\ queue \in Seq(Item) /\ Len(queue) <= MaxQueue
  /\ written \in Seq(Item)

WsInit ==
  /\ call = "idle" /\ item = 0 /\ ws = "none" /\ lock = "free"
  /\ waiting = FALSE /\ period = "none" /\ drain = "none" /\ got = 0
  /\ queue = <<>> /\ written = <<>>

\* A new client.
WsCreate ==
  /\ call' = "idle" /\ item' = 0 /\ ws' = "none" /\ lock' = "free"
  /\ waiting' = FALSE /\ period' = "none" /\ drain' = "none" /\ got' = 0
  /\ queue' = <<>> /\ written' = <<>>

-----------------------------------------------------------------------------
(* SendData, in the caller's thread.                                       *)

\* _period_start.
WsSendData(i) ==
  /\ call = "idle"
  /\ item' = i
  /\ period' = IF period = "none" THEN "on" ELSE period
  /\ call' = "restart"
  /\ UNCHANGED <<ws, lock, waiting, drainVars, queue, faults>>

\* _restart_now.
Restart ==
  /\ call = "restart"
  /\ call' = IF ws = "none" THEN "start" ELSE "full"
  /\ UNCHANGED <<item, startVars, drainVars, queue, faults>>

\* start() up to the first point where it waits: for the lock, which it tests
\* and takes in one step (see the head of the module), or for the connection.
\* If the loop has connected since the test above, the caller itself moves the
\* queue.
StartHere ==
  /\ call = "start"
  /\ \/ /\ lock # "free"
        /\ waiting' = TRUE
        /\ call' = "full"
        /\ UNCHANGED <<lock, drain>>
     \/ /\ lock = "free" /\ ws = "none"
        /\ lock' = "connect"
        /\ call' = "full"
        /\ UNCHANGED <<waiting, drain>>
     \/ /\ lock = "free" /\ ws # "none"
        /\ lock' = "caller"
        /\ drain' = "test"
        /\ call' = "drain"
        /\ UNCHANGED waiting
  /\ UNCHANGED <<item, ws, period, got, written, queue, faults>>

\* (Faulty variants that the checks must tell from the code have names of the
\* form <definition>_<fault>; Next does not use them.)
PutOrThrowAway_oneTooMany ==
  /\ call = "full"
  /\ IF Len(queue) <= MaxQueue
       THEN queue' = Append(queue, item) /\ item' = 0 /\ call' = "idle"
       ELSE call' = "get" /\ UNCHANGED <<queue, item>>
  /\ UNCHANGED <<startVars, drainVars, faults>>

PutOrThrowAway ==
  /\ call = "full"
  /\ IF Len(queue) < MaxQueue
       THEN queue' = Append(queue, item) /\ item' = 0 /\ call' = "idle"
       ELSE call' = "get" /\ UNCHANGED <<queue, item>>
  /\ UNCHANGED <<startVars, drainVars, faults>>

\* The oldest is thrown away; get waits for one to be there.
GetOldest ==
  /\ call = "get"
  /\ queue # <<>>
  /\ queue' = Tail(queue)
  /\ call' = "put"
  /\ UNCHANGED <<item, startVars, drainVars, faults>>

PutNewest ==
  /\ call = "put"
  /\ queue' = Append(queue, item)
  /\ item' = 0
  /\ call' = "idle"
  /\ UNCHANGED <<startVars, drainVars, faults>>

-----------------------------------------------------------------------------
(* start() in the loop: once a second, and when the lock is released.      *)
(* Behind a start() that gets the lock others may go on waiting.           *)

Tick ==
  /\ lock # "loop"
  /\ period = "on" \/ waiting
  /\ \/ /\ lock # "free"
        /\ waiting' = TRUE
        /\ UNCHANGED <<lock, drain>>
     \/ /\ lock = "free" /\ ws = "none"
        /\ waiting' \in {waiting, FALSE}
        /\ lock' = "connect"
        /\ UNCHANGED drain
     \/ /\ lock = "free" /\ ws # "none"
        /\ waiting' \in {waiting, FALSE}
        /\ lock' = "loop"
        /\ drain' = "test"
  /\ UNCHANGED <<callVars, ws, period, got, written, queue, faults>>

WsConnect ==
  /\ lock = "connect"
  /\ ws' = "open"
  /\ lock' = "loop"
  /\ drain' = "test"
  /\ UNCHANGED <<callVars, waiting, period, got, written, queue, faults>>

WsConnectFails ==
  /\ lock = "connect"
  /\ Fault
  /\ lock' = "free"
  /\ UNCHANGED <<callVars, ws, waiting, period, drainVars, queue>>

DrainEnds_stillLocked ==
  /\ drain' = "none"
  /\ call' = IF lock = "caller" THEN "full" ELSE call
  /\ UNCHANGED <<item, ws, lock, waiting, period>>

\* on_connected returns or raises: the lock is released, and the caller goes on.
DrainEnds ==
  /\ drain' = "none"
  /\ lock' = "free"
  /\ call' = IF lock = "caller" THEN "full" ELSE call
  /\ UNCHANGED <<item, ws, waiting, period>>

\* The test of the queue, and the look-up of write_message, which raises if the
\* connection is None by now.
DrainTest ==
  /\ drain = "test"
  /\ IF queue = <<>> \/ ws = "none"
       THEN DrainEnds
       ELSE drain' = "get" /\ UNCHANGED <<callVars, startVars>>
  /\ UNCHANGED <<got, written, queue, faults>>

DrainGet ==
  /\ drain = "get"
  /\ queue # <<>>
  /\ got' = Head(queue)
  /\ queue' = Tail(queue)
  /\ drain' = "write"
  /\ UNCHANGED <<callVars, startVars, written, faults>>

DrainWrite_putBack ==
  /\ drain = "write"
  /\ got' = 0
  /\ \/ /\ ws # "none"
        /\ written' = Append(written, got)
        /\ drain' = "test"
        /\ UNCHANGED <<callVars, startVars, queue>>
     \/ /\ ws # "open"
        /\ DrainEnds
        /\ queue' = Append(queue, got)
        /\ UNCHANGED written
  /\ UNCHANGED faults

\* What was taken out for a connection that is closed is lost.
DrainWrite ==
  /\ drain = "write"
  /\ got' = 0
  /\ \/ /\ ws # "none"
        /\ written' = Append(written, got)
        /\ drain' = "test"
        /\ UNCHANGED <<callVars, startVars>>
     \/ /\ ws # "open"
        /\ DrainEnds
        /\ UNCHANGED written
  /\ UNCHANGED <<queue, faults>>

WsServerCloses ==
  /\ ws = "open"
  /\ Fault
  /\ ws' = "shut"
  /\ UNCHANGED <<callVars, lock, waiting, period, drainVars, queue>>

\* on_message reads None.
CloseNoticed ==
  /\ ws = "shut" /\ lock # "loop"
  /\ ws' = "none"
  /\ UNCHANGED <<callVars, lock, waiting, period, drainVars, queue, faults>>

\* stop(), in the window's thread: a connection being made is not ended, nor a
\* start() that waits.
WsStop ==
  /\ ws' = "none"
  /\ period' = IF period = "on" THEN "off" ELSE period
  /\ UNCHANGED <<callVars, lock, waiting, drainVars, queue, faults>>

\* on_connected, in the loop or in the caller's thread.
OnConnected(who) == lock = who /\ (DrainTest \/ DrainGet \/ DrainWrite)

WsCaller ==
  Restart \/ StartHere \/ PutOrThrowAway \/ GetOldest \/ PutNewest
  \/ OnConnected("caller")

WsLoop ==
  Tick \/ WsConnect \/ WsConnectFails \/ CloseNoticed \/ OnConnected("loop")
=============================================================================

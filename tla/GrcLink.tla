------------------------------ MODULE GrcLink -------------------------------
(***************************************************************************)
(* The receiving side of the DSLWP proxy: the thread that listens for      *)
(* GNU Radio and reads from it (core/connection_to_grc.py), and the buffer *)
(* it fills (DataBuf of core/data.py).                                     *)
(*                                                                         *)
(* What is read is numbered.  The buffer holds references to the           *)
(* dictionary that set_info installed, one dictionary for every start of   *)
(* the proxy, and create_http_data writes each reading into it: raw_data   *)
(* is what a reference shows when it is looked at.  GNU Radio is external: *)
(* it connects, sends and closes when it likes, and a second client may    *)
(* ask for a connection.                                                   *)
(***************************************************************************)
EXTENDS Integers, Sequences

CONSTANTS
  MaxData,    \* readings in a behaviour
  MaxStarts   \* starts of the proxy

ASSUME GrcAssumption == MaxData \in Nat /\ MaxStarts \in Nat

VARIABLES
  r_pc,       \* the thread: "select", "recv", "put", "drain" or "dead"
  grc_stop,   \* its thread_stop
  connected,
  asking,     \* a client waits to be accepted
  puts,       \* readings put into the buffer
  early,      \* those put before there was a sender
  info,       \* the dictionary now in use, 0 if none
  raw_data,   \* what each dictionary shows
  data_buff,  \* the dictionaries referred to
  sender,     \* "none", that of an "old" start, or that of the "new" one
  handed      \* the readings handed to a sender

bufVars == <<puts, early, info, raw_data, data_buff, sender, handed>>
grcVars == <<r_pc, grc_stop, connected, asking, bufVars>>

GrcTypeOK ==
  /\ r_pc \in {"select", "recv", "put", "drain", "dead"}
  /\ grc_stop \in BOOLEAN /\ connected \in BOOLEAN /\ asking \in BOOLEAN
  /\ puts \in 0 .. MaxData /\ early \in 0 .. puts
  /\ info \in 0 .. MaxStarts
  /\ raw_data \in [1 .. MaxStarts -> 0 .. MaxData]
  /\ data_buff \in Seq(1 .. MaxStarts)
  /\ sender \in {"none", "old", "new"}
  /\ handed \in Seq(1 .. MaxData)

GrcInit ==
  /\ r_pc = "dead" /\ grc_stop = FALSE /\ connected = FALSE /\ asking = FALSE
  /\ puts = 0 /\ early = 0 /\ info = 0
  /\ raw_data = [d \in 1 .. MaxStarts |-> 0]
  /\ data_buff = <<>> /\ sender = "none" /\ handed = <<>>

-----------------------------------------------------------------------------
(* LinkToGRC.                                                              *)

ClientAsks ==
  /\ r_pc # "dead" /\ ~grc_stop
  /\ ~asking
  /\ asking' = TRUE
  /\ UNCHANGED <<r_pc, grc_stop, connected, bufVars>>

\* recv follows the accept at once, and waits for the client.
Accept ==
  /\ r_pc = "select" /\ ~grc_stop
  /\ asking /\ ~connected
  /\ asking' = FALSE
  /\ connected' = TRUE
  /\ r_pc' = "recv"
  /\ UNCHANGED <<grc_stop, bufVars>>

\* select reports the listener, and the thread reads from the connection.
SecondClient ==
  /\ r_pc = "select" /\ ~grc_stop
  /\ asking /\ connected
  /\ r_pc' = "recv"
  /\ UNCHANGED <<grc_stop, connected, asking, bufVars>>

\* The thread is in recv, or in select with a connection that stop() has not
\* closed.
Reading == r_pc = "recv" \/ (r_pc = "select" /\ connected /\ ~grc_stop)

Read ==
  /\ Reading
  /\ puts < MaxData
  /\ r_pc' = "put"
  /\ UNCHANGED <<grc_stop, connected, asking, bufVars>>

Logout ==
  /\ Reading
  /\ connected' = FALSE
  /\ r_pc' = "select"
  /\ UNCHANGED <<grc_stop, asking, bufVars>>

\* An error of recv ends the thread.
Reset ==
  /\ Reading
  /\ connected' = FALSE
  /\ r_pc' = "dead"
  /\ UNCHANGED <<grc_stop, asking, bufVars>>

\* The test of the loop, or select on what stop() has closed.
GrcEnds ==
  /\ r_pc = "select" /\ grc_stop
  /\ r_pc' = "dead"
  /\ UNCHANGED <<grc_stop, connected, asking, bufVars>>

\* (Faulty variants that the checks must tell from the code have names of the
\* form <definition>_<fault>; Next does not use them.)
GrcStop_noFlag == UNCHANGED grcVars

\* stop(), in the window's thread.  A recv that waits goes on waiting.
GrcStop ==
  /\ grc_stop' = TRUE
  /\ UNCHANGED <<r_pc, connected, asking, bufVars>>

\* A new thread and listener, and a new dictionary for the buffer, which stays,
\* with what is in it and its sender.  A port that cannot be bound leaves a
\* closed listener, on which select raises.
GrcStart ==
  /\ info < MaxStarts
  /\ info' = info + 1
  /\ sender' = IF sender = "none" THEN "none" ELSE "old"
  /\ r_pc' \in {"select", "dead"}
  /\ grc_stop' = FALSE /\ connected' = FALSE /\ asking' = FALSE
  /\ UNCHANGED <<puts, early, raw_data, data_buff, handed>>

-----------------------------------------------------------------------------
(* DataBuf.                                                                *)

\* The reading goes into the dictionary, and a reference to it into the queue.
Put ==
  /\ r_pc = "put"
  /\ puts' = puts + 1
  /\ raw_data' = [raw_data EXCEPT ![info] = puts']
  /\ data_buff' = Append(data_buff, info)
  /\ early' = IF sender = "none" THEN puts' ELSE early
  /\ r_pc' = IF sender = "none" THEN "select" ELSE "drain"
  /\ UNCHANGED <<grc_stop, connected, asking, info, sender, handed>>

\* With KISS enabled a reading that completes no packet is None, which has no
\* hexadecimal form: the exception ends the thread.
PutNone ==
  /\ r_pc = "put"
  /\ r_pc' = "dead"
  /\ UNCHANGED <<grc_stop, connected, asking, bufVars>>

\* send_signal: what the reference shows now is handed to the sender.
HandOver ==
  /\ r_pc = "drain"
  /\ data_buff # <<>>
  /\ handed' = Append(handed, raw_data[Head(data_buff)])
  /\ data_buff' = Tail(data_buff)
  /\ UNCHANGED <<r_pc, grc_stop, connected, asking, puts, early, info, raw_data,
                 sender>>

AllHandedOver_tooSoon ==
  /\ r_pc = "drain"
  /\ r_pc' = "select"
  /\ UNCHANGED <<grc_stop, connected, asking, bufVars>>

AllHandedOver ==
  /\ r_pc = "drain"
  /\ data_buff = <<>>
  /\ r_pc' = "select"
  /\ UNCHANGED <<grc_stop, connected, asking, bufVars>>
=============================================================================

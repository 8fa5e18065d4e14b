# A TLA+ verification of gr-lilacsat

gr-lilacsat is a GNU Radio out-of-tree module for the LilacSat, BY70, DSLWP and
ASRTU satellites. It has C++ blocks (`lib/*_impl.cc`) around C libraries that
were written for microcontrollers (`lib/afsk`, `lib/ccsds`, `lib/ccsds_afsk`,
`lib/kiss`), and proxies in Python and C that carry received frames to servers
(`examples/*`). This directory models the parts whose correctness depends on
state and order, checks the models with TLC on small instances, and proves what
it can for every value of the constants with TLAPS.

Contents: [1 the system](#1-the-system), [2 the plan](#2-the-plan),
[3 modules](#3-the-modules-and-the-code), [4 runs](#4-the-runs),
[5 proofs](#5-the-proofs), [6 limits](#6-what-is-not-shown).
`PROJECT.json` holds, per definition, the source lines it models, and the list of
hazards with the properties that cover them.

## 1 The system

### 1.1 How a block runs

GNU Radio gives every block a thread. The thread hands each queued message to
the block's message handler; when the queue is empty it calls `work()` with some
room in the output or some items in the input; then it starts again. So a
handler and the `work()` of the same block never overlap, and how many items a
`work()` gets is arbitrary. GNU Radio is not part of the repository: it is
modelled by this rule, in the guards of `Dispatch` and `StartWork`.

The C libraries were written for another world, where the code that fills a
FIFO is the main program and the code that drains it is an interrupt. Busy-waits
such as the one in `ccsds_txwrite` are right there, and in a block they can only
be left if they need not be entered.

### 1.2 Components

"Properties" says what makes the component correct. The hazards of each are in
`PROJECT.json`.

**Ring buffer** (`lib/afsk/fifobuf.{c,h}`). State: `begin`, `end`, `head`, `tail`
and the array. Operations: `fifo_init`, `fifo_isempty`, `fifo_isfull`,
`fifo_push`, `fifo_pop`, `fifo_flush`, `fifo_len`, and 16-bit copies of them.
Every other C library of the module is built on it. Its comments promise that
one writer and one reader may be concurrent. Hard: the two tests read two
pointers each, and `*(fb->head++)` moves the pointer before or after the byte is
loaded. Properties: a lossless first-in first-out queue of size less one; no
slot is overwritten while it is read; a writer gets through whenever there is
room, since the thread that waits for room is the one that would make it.

**CCSDS transmitter** (`lib/fec_encode_b_impl.cc`, `lib/ccsds/ccsds.c`). State:
`tx_fifo`, `sending`, `preamble_len`, `trailer_len`, `d_ptt`, the message queue.
Operations: a message handler that calls `ccsds_send`, `work()` that calls
`ccsds_tx_proc` and publishes PTT commands. Hard: a frame arrives at any moment
of a burst; the handler waits for room in a FIFO its own thread drains; the
output buffer ends anywhere; `d_ptt` is not initialised. Properties: bursts are
preamble, whole frames without gaps, whole trailer; the PTT covers them; what is
accepted is sent.

**CCSDS receiver** (`lib/fec_decode_b_impl.cc`, `ccsds_rx_proc` and
`ccsds_pull`). State: `rx_fifo`, the search register, the place in the frame,
masks and the current byte. Hard: a frame begins at any bit and any call of
`work()`; everything survives from one call to the next; a full FIFO is
flushed. Properties: the block equals a bit-serial deframer; bytes are lost only
in a call that brings too many; an empty FIFO is never popped; each call ends.

**Sync word, randomizer, line code** (`ccsds.c`, `randomizer.c`). State: two
static counters for the preamble and the trailer, one bit of state in either
direction of the NRZ-M code. Hard: the search tolerates a wrong bit, so that
what is sent between frames must keep away from the sync word from every
position of the counters and across every seam. Properties: no false sync, none
missed; the tables invert each other on either phase and at any cut.

**AX.25 transmitter** (`lib/afsk1200_tx_f_impl.cc`, `ax25_sendVia`,
`afsk_tx_proc`). State: `tx_fifo` with escapes in it, `sending`, the preamble and
trailer counters, the bit and sample position, `d_ptt`. Hard: escapes are put in
by one function and taken out by another, perhaps in another call; an output
buffer ends in the middle of a character; the busy-wait as above. Properties:
a receiver gets the posted frames; bursts are framed; the PTT covers them.

**AX.25 link and receiver** (`afsk_tx_proc`'s bits, `hdlc_parse`, `ax25_poll`,
`lib/afsk1200_rx_f_impl.cc`). State: on one side stuffing counter and tone, on
the other `Hdlc`, `rx_fifo` and `AX25Ctx`. Hard: wrong tones turn data into
flags and flags into data; an overrun may part an ESC from its character;
everything survives from poll to poll. Properties: frames reach the hook in
order and once; a frame is lost only for something that happened to it.

**KISS framing** (`lib/kiss/kiss.c`, `lib/kiss_{en,de}code_pdu_impl.cc`, two
`kiss_decoder.py`). State: the buffer and whether an escape is pending. One
encoder and three decoders, which differ in what they do with a wrong character
behind an escape and with what follows a frame in the same read. Hard: a
connection breaks anywhere in a frame, and the decoder goes on with the next
connection's bytes. Properties: what arrives whole comes out whole, once, in
order.

**Stream splitter** (`StreamSpliterV2/StreamSpliter2.py`). State: buffer, place of
the header, state 0 to 2. It takes packets out of a stream that comes in pieces;
the other end of what the proxy's handler packs. Hard: headers, lengths and
packets cut anywhere; a header inside a frame; a packet that is too long.
Properties: the packets put in come out.

**LilacSat proxy** (`examples/LilacSat-{1,2}/proxy_publish`, the core the same in
both). Threads: a connection to the server (`ProxyConnectInterface`), a sender
(`SocketSender`), a listener for GNU Radio (`ProxyListenInterface`) and the window.
They share a socket reference, `StateNow`, a queue and a resend buffer without a
lock. Hard: `sock` is closed, set to None and made anew between a test and a use;
attempts to connect are counted while packets are posted; the window waits for
threads that wait for threads. Properties: packets are sent in order and once;
one packet at most is between the queue and the connection; each is sent unless
the code strands it; stopping ends.

**DSLWP proxy** (`examples/BY70-2/DSLWP-Downlink-Proxy`). Threads: a receiver that
also runs `SendData`, tornado's loop for a websocket or a sender for a plain socket,
the window. State: the buffer of references to one shared dictionary, the bounded
queue of the websocket, the queue and resend buffer of the socket. Hard:
`start()` and `on_connected` run in two threads; a full queue is emptied before its
oldest item can be thrown away; an answer is read by the wrong `recv`; readings
that wait are changed by the next one. Properties: readings are handed on as they
were; the server gets them in order, none twice; neither the queue nor a stop
waits for ever.

Not modelled: the CCSDS over AFSK blocks, `sync_det_b`, the two-bit differential
blocks and the Node 1 decoder (four more copies of the search that `FecDecode`
models), the LilacSat-1 depacketiser, the ASRTU-1 proxy, sinks and sources of
PDUs, third-party codecs, demodulators and channel models in floating point,
telemetry parsers, windows and settings. Section 6 says why.

### 1.3 How they interact

    message -> fec_encode_b -> (symbols) -> channel -> fec_decode_b -> message
                 FecEncode      SyncSearch, LineCode     FecDecode

    message -> afsk1200_tx_f -> (samples) -> line -> afsk1200_rx_f -> message
                 AfskTx         +-------- HdlcLink --------+

    message -> kiss_encode_pdu -> TCP -> decoder -> handler -> TCP -> StreamSpliter2
                 +------ Kiss ------+       +-- StreamSplitter (packing) --+
                 +-------------------- TelemetryPath ---------------------+

    GNU Radio -> listener -> queue -> sender -> server    LilacProxy
    GNU Radio -> LinkToGRC -> DataBuf -> websocket or socket -> server
                 +----- GrcLink ----+  WebSocketClient, SocketSender
                 +------------------ DslwpProxy -----------------+

    FifoBuf lies under all four blocks.

The models meet at these seams. `FifoBuf` implements `BoundedQueue`, so that
`FecEncode` may number the bytes that pass its FIFO and `FecDecode`, `AfskTx` and
`HdlcLink` may use a sequence. `AfskTx` shows that the characters on the air are
the posted frames between unstuffed flags, which is where `HdlcLink` starts.
`SyncSearch` shows that the real sync word is found where, and only where, it
was sent, which `FecDecode` leaves open by taking any bits from the channel.
`TelemetryPath` looks at the bytes of frames and packets and has no threads;
`LilacProxy` and `DslwpProxy` look at the threads and have numbers for packets.

## 2 The plan

| # | Module | State |
|---|---|---|
| 1 | `BoundedQueue`, `FifoBuf`, refinement | done, proved |
| 2 | `FecEncode` | done, safety proved |
| 3 | `Deframer`, `FecDecode`, refinement | done, proved |
| 4 | `SyncSearch`, `LineCode` | done, checked |
| 5 | `AfskTx`, `HdlcLink` | done, safety proved but for `NoFrameTwice` |
| 6 | `LilacProxy`: connection, sender and listener threads | done, safety proved |
| 7 | `GrcLink`, `WebSocketClient`, `SocketSender`, `DslwpProxy` | done, safety proved |
| 8 | `Kiss`, `StreamSplitter`, `TelemetryPath` | done, proved |
| 9 | proofs of `AfskTx` and `HdlcLink`, refinement of `Deframer` | done |
| 10 | decoders and splitter as steps, and their proof | done |

Abstract specifications: `BoundedQueue` and `Deframer`, which `FifoBuf` and
`FecDecode` implement. What is left of the plan is what section 6 lists.

## 3 The modules and the code

| Module | Models |
|---|---|
| `BoundedQueue` | abstract: a queue of at most `Capacity` bytes, one writer, one reader |
| `FifoBuf` | `fifobuf.c`, a step for each access to a pointer or the array |
| `FecEncode` | `fec_encode_b`, `ccsds_send`, `ccsds_txwrite`, `ccsds_tx_proc` |
| `Deframer` | abstract: search and collect, one bit at a time |
| `FecDecode` | `fec_decode_b`, `ccsds_rx_proc`, `ccsds_rxwrite`, `ccsds_pull` |
| `SyncSearch` | the comparison of `ccsds_pull` against the bytes `ccsds_tx_proc` really sends |
| `LineCode` | `m_encode_tab`, `m_decode_tab` and the bits of state around them |
| `AfskTx` | `afsk1200_tx_f`, `ax25_sendVia`, `afsk_write`, the characters of `afsk_tx_proc` |
| `HdlcLink` | the bits of `afsk_tx_proc`, `hdlc_parse`, `ax25_poll` |
| `LilacProxy` | `SocketSender`, `ProxyConnectInterface`, `ProxyListenInterface`, `StartProxy` |
| `GrcLink` | `LinkToGRC`, `DataBuf` |
| `WebSocketClient` | the class of that name: the queue, `start()`, `on_connected`, the lock |
| `SocketSender` | the class of that name in the DSLWP proxy |
| `DslwpProxy` | the three together, `start_proxy` and `stop_proxy` |
| `Faults` | a bound on what the network does to the DSLWP proxy |
| `Kiss` | `kiss.c`, `kiss_encode_pdu`, two `kiss_decoder.py` |
| `StreamSplitter` | `StreamSpliter2`, the packing of `handle_D_L2RA_Kiss` |
| `TelemetryPath` | a frame's way through them, over two TCP connections |
| `*Proofs` | theorems about the module they extend |
| `MC*` | values for TLC; nothing else |

Definitions named `<definition>_<fault>` are wrong versions of the definition
below them: a forgotten guard, a missing reset, an off-by-one. No specification
uses them. Put in the place of the right one, each makes TLC report the
property it is paired with in `PROJECT.json`, which shows that the property can
see the fault.

**FifoBuf.** Pointers are offsets from `begin`. The writer's program counter
`ppc` goes through the two disjuncts of `fifo_isfull`, the store of `fifo_push`
and the move of `tail`; the reader's `cpc` through `fifo_isempty` and the two
halves of `*(fb->head++)`, in either order, since the compiler may choose. The
variables are volatile and a pointer is stored atomically, as the file's comment
requires. `Flush` is `fifo_flush` as `ccsds_rxwrite` calls it, its only caller: on a ring
found full, between the test and the push, in the thread that also reads, so that the
reader is not in `fifo_pop`. The comments of the file promise nothing of a flush that
a reader runs into, and nothing is shown of one.

**FecEncode.** `pc` is where the block's thread is: at the scheduler, in
`ccsds_send`, or in `ccsds_tx_proc`. `TxPreamble`, `TxData`, `TxTrailer`, `TxStop`,
`TxPadding` are the branches of the loop; `EndWork` is its end and the PTT. Bytes
have numbers, not values. `pre` and `quiet` are history: how much preamble and
how much trailer has gone out. Coding and randomizing do not change the control
and are left out. `Backlog` is what a client lets wait; the FIFO must hold it,
or the thread stops (see `AfskTx`, run `afsk_wait`).

**FecDecode.** `StartWork` and `RxWrite` are `work()` and `ccsds_rx_proc`; one pass
of the loop of `ccsds_pull` is `Hunt`, `Collect` or `Complete`. The bytes that
arrive are arbitrary: that stands for the channel, the Viterbi decoder and the
NRZ-M decoder in front. `decode_rs` may accept or reject any frame. The refinement
mapping to `Deframer` gives the bits still waiting (rest of the current byte,
then the FIFO), and the bits of the frame gathered through the mask.

**SyncSearch.** The sync word and the 255 bytes of `randomizer.c` are those of the
source. A step sends a byte and searches eight bits. The byte `ccsds_tx_proc`
puts out when it stops is unassigned: any value, modelled as bits that agree
with anything.

**LineCode.** The tables are those of the source. The receiver's byte boundary is
some bits behind the sender's, the line may be inverted, one bit may flip.

**AfskTx.** A frame is a sequence of "data", "flag" and "esc" (reset is treated as
flag is). `at` and `escapes` are where `ax25_sendVia` is in its frame, `Written` is
what it pushes there and `PutNext` how it goes on; `TxChar`, `TxEscaped`,
`TxPreamble`, `TxTrailer` take the next character, `TxSample` its other samples,
`TxStop` is the loop's way out. `heard`, `received`, `flags` and `first` are the
view of a receiver that splits at unstuffed flags. `afsk_tx_proc` has a branch
for an ESC with nothing behind it; the last conjunct about `tx_fifo` of `TypeOK`
says why it is never taken.

**HdlcLink.** Bits and characters are the real ones. A bit passes sender, line
and `hdlc_parse` in one step; a poll takes one character per step. The check
sequence is part of a frame and ideal: it accepts what was sent and nothing
else. The demodulator gives one tone per bit; a wrong one stands for noise. `hurt`
and `cut` are history: the frames something happened to, and that `rx_fifo` took an
ESC without what it escapes and no flag since.

**LilacProxy.** `s_pc`, `l_pc` and `x_pc` are where the sender, the connection and the
listener are, with a step for every use of `sock` and `StateNow` by another thread.
The loss of a connection is three steps, `RecvEnds`, `ForgetSocket` and `BackToIdle`:
close, `sock = None`, `StateNow = 0`. What the sender saw in `Look` it does not look at
again: `Select` may find a socket that is closed or None, `SenderDies` is
`None.send`, an AttributeError that `except socket.error` does not catch. `Stranded`
is `LilacProxyCore.py:90`: a packet in `ReSendBuf` and an empty queue are no reason to
connect. The message "Try To Connect 10 Times" comes after eleven. The second
channel has the same listener, and the backup server the same connection and
sender; one of each is modelled. Setting up the listening socket is one step: an
address in use would delay it. `CreateSocket` leaves out that `socket.socket()` may fail
(`LilacProxyCore.py:99`): it sleeps and tries again with nothing changed, a stuttering
step, and is taken to succeed in the end. The window's part is `StartProxy`;
`closeEvent` is not modelled.

**GrcLink, WebSocketClient, SocketSender, DslwpProxy.** Readings are numbered. A
reference in `DataBuf` is the number of the dictionary that a start installed, and
`raw_data` is what the dictionaries show: a reading put before there is a sender
is overwritten by the next. `call` is where the receiving thread is in
`WebSocketClient.SendData`; `lock` says who holds the coroutine lock: a connection
attempt, the loop, or the caller itself, when `start()` found the connection made
meanwhile. Each call of tornado's (`acquire` and release, `websocket_connect`,
`write_message`) is one step in whichever thread it is made. For the lock this is an
assumption that tornado does not grant: `locks.Lock` is made for coroutines of one
thread, and here `start()` runs in two (`connection_to_server_websocket.py:26`), so
that both might find it free. Two drains at once, which could write items in the
wrong order, are not in the model; `InOrder`, the theorem about it and `Delivered` hold
for a lock that admits one `start()` at a time. `waiting` says that at least one
`start()` waits for it; which of them gets it is open. `DrainTest`, `DrainGet`, `DrainWrite` are the steps of `on_connected`; an item
taken out for a connection that is closed by then is lost. The socket's thread
reads the answer (`Answer`) and once more if select found the socket readable before
the send (`Extra`), outside the `try`: if the answer was already there it waits for
the next. A socket that has been connected cannot be connected again, so that a
repeated send never reaches the server. `StartFails` is an exception in
`start_proxy` that leaves `proxy_running` true. What an old sender does after a new
start is not followed, and a websocket that opens after `stop()` is left open by
the model as by the code.

**Kiss.** Bytes are the real ones, and a step is one that arrives: `Open`, `Plain`,
`Escape`, `Escaped` and `Close` are the bytes of `kiss_tx_packet`, `Pad` those that
`kiss_encode_pdu` adds. The sender itself has no state of its own, since nothing
depends on how far it is ahead. A decoder is a record, its callback the sequence
`out`; `AppendByte` is a turn of the loop in either `kiss_decoder.py`. The proxies'
loops differ in one thing: that of DSLWP returns the first frame it completes
(`returned`) and does not look at the rest of the read, which ends at `EndRead`.
`Break` loses the rest of a frame; the decoders, which are never reset, go on with
the next frame. `merged` and `missed` are history: the first FEND of the frame stood
behind an escape that was left from the frame before, where it is a wrong character;
the DSLWP decoder has not looked at some byte of the frame.

**StreamSplitter.** `NewStream(n)` is a call with the next `n` bytes; `FindHeader`,
`NoHeader`, `ReadSize`, `TakePacket` and `Wait` are the branches of its loop, and `busy`
says that it has not returned. `SendPacket` is `handle_D_L2RA_Kiss`. `packets` and `due`
are history: the frames packed, and what should come out for those the server's
limit lets through. The station's data (nickname, place, reserve) are zeros.

**TelemetryPath.** The two together: a step of the LilacSat-1 decoder that puts a
frame out packs it (`handle_D_L2RA`).

## 4 The runs

All run with deadlock checked, except `afsk_wait`, where the block really stops, and
`telemetry_path`, which ends when every frame has been sent and read.

| Run | Distinct states | Question |
|---|---|---|
| `fifobuf` | 64,752 | is the ring a queue, with both contexts interleaved at every access? |
| `fec_encode` | 7,541 | are bursts framed, covered by the PTT, complete? |
| `fec_decode` | 72,719 | is the block a bit-serial deframer? |
| `sync_search` | 350,241 | can anything but a sync word look like one? |
| `line_code` | 540,696 | do the tables agree on every byte, phase and cut? |
| `afsk_tx` | 128,613 | do frames and escapes survive bursts and buffer ends? |
| `hdlc_link` | 1,831,203 | what may an error on the line, or an overrun, cost? |
| `lilac_proxy` | 89,429 | what may a socket that changes under the sender cost? |
| `dslwp_proxy` | 574,127 | do two threads on one queue lose, repeat or block? |
| `telemetry_path` | 526,737 | does a frame come through cuts and breaks whole? |
| `ws_full` | violation | does a full queue throw its oldest item away? |
| `afsk_wait` | violation | does the modem go on being served when frames do not fit? |

**fifobuf.** `Size` 4 and two byte values: three slots in use, so that full, empty,
both wraps, and a queue with an inner element all occur; the proof covers every
size. `TypeOK`: no pointer leaves the array. `NoTornSlot`: the writer never stores
to the slot a reader has claimed and not read. `QueueSpec`: refinement of
`BoundedQueue`, which may lose bytes only by a `Discard` of a full queue.
`RoomSuffices`: a writer gets through whenever the ring is not full. Fairness: weak on
the writer's thread alone. There is none on the reader, because no block has one that
runs on its own: `*_tx_proc` is called by `work()`, in the thread that waits in
`ccsds_txwrite` or `afsk_write`. A writer that finds the ring full and waits may therefore
wait for ever, which is what `afsk_wait` shows and `NeverSpins` is about.

**fec_encode.** Frames of 3 bytes, preamble and trailer of 2, a FIFO of 6, a client
with a backlog of up to 6, output room of 1 or 4 bytes, 4 messages, all four
configurations. Two frames fill the FIFO; four let frames arrive in each phase of
a burst and start a second one; room for 1 ends every byte at a buffer end, room
for 4 crosses from a frame into the next and past the trailer. Fairness: weak on
the block's thread; nothing makes a client post. `PttCoversSymbols` has the
exception the code forces: before the first command `d_ptt` is whatever the
memory held.

**fec_decode.** A sync word of four bits, bytes of two, frames of two bytes, a FIFO
of two, one to three bytes a call: sync words and frames at every bit of a byte,
calls that leave the FIFO half empty, fill it and overflow it, and a false match
(the sync word has neighbours within one bit). Fairness: weak on the thread.

**sync_search.** The real values. `Enough` = 4: four bytes are the 32 bits of the
register, so that longer stretches of one kind add nothing but further
positions of the counter, and every position is a start. The least distance that
occurs between frames is 7 in the preamble and trailer alone; across the seams
it is smaller (6; 2 at the unassigned byte, if all its bits conspire) and always
above the tolerance of 1. The module assumes, and TLC evaluates, that the table is
the sequence of h(x) = x^8+x^7+x^5+x^3+1 that the comment in `ccsds_generate_sequence` names.

**line_code.** Every byte, on both phases, cut at each of the eight places, with any
one bit of each byte flipped or none. What is decoded is what was sent but for a
flipped bit and the next one. The instance is the whole of the model: bytes that are
done with leave no trace but the states of the two ends, so that there is no bound
on their number and no other value of the constant to try.

**afsk_tx.** A plain frame, one that ends in a flag character, one of an ESC and a
flag; three of them fit the FIFO of 18. Two samples a character and calls of one
or three samples, so that buffers end inside characters; preamble and trailer of
two; with and without padding. Fairness: weak on the thread.

**hdlc_link.** `<<27,248>>` (an ESC as data; five ones over a character boundary),
`<<248,126>>` (five ones at the end of a character, a flag as data), `<<127,255,27>>`
(a reset as data, eight ones, an ESC, and longer than the buffer of 2), in any
order, with any number of flags around them. One wrong tone anywhere; a FIFO of
3 that overruns when not polled. A wrong tone may hurt its own bit and the next
(NRZI), so that an error on the last bit of one frame's flag may hurt the frame
behind; an overrun hurts the frame being sent, and may leave an ESC alone in the
FIFO, which escapes the next flag, whichever frame that one belongs to.
`LossExplained` allows exactly these, and fails without any of them. An earlier form
of it said that an overrun hurts this frame and the next: two frames satisfy that,
three do not. Where wrong tones hide both flags of the second frame, the ESC that
the first left waits for the opening flag of the third. The proof did not go
through there, TLC found the run with three frames and two wrong tones, and `cut`
came of it. `MaxFrames` is 2 in the run; the proof has no bound.
With the real sizes (a FIFO of 1024, about 128 bytes between
polls) an overrun does not happen; it is modelled because the code handles it.

**lilac_proxy.** Two packets: one may be stranded while the other is posted. Three
faults, used on refused and on broken connections, and one retry, so that attempts
end in success and in giving up, twice over. `Conserved`: `sent` is 1, 2, ... and at
most one packet is in the sender's hand or in `ReSendBuf`. `sent` is what `send`
accepted; a connection that has been shut may still accept. `Served`: what is
posted is sent, unless the sender dies, the proxy is stopped, or the packet is
`Stranded`. Fairness: weak on each thread, since their loops run whenever select or
sleep returns, and on the window once it has begun to stop. Nothing makes GNU Radio
send, or the server answer.

**dslwp_proxy.** Three readings, two starts, a queue of two, two faults: readings
before the first sender, from one start to the next, a queue that overflows, and a
connection that is refused and then lost. `HandedExactly` has the exception the
shared dictionary forces. `InOrder`: over the websocket items may be missing (thrown
away, or lost with the connection) but are in order and never twice; over the
socket the server gets all up to some item. `Delivered` and `StopEnds` name the places
where the code waits for something that need not come: the second `recv`
(`connection_to_server_socket.py:91`), a socket that cannot be made again, a `recv`
from a silent GNU Radio (`connection_to_grc.py:78`; closing the socket in another
thread does not end it), and the `get` of `ws_full`. Fairness: weak on every thread, on
the server's answers and on the window once it has begun.

**telemetry_path.** A frame of the two characters that are escaped, one that holds
the header of a packet, and one that makes a packet too long and ends like the
beginning of a header, in any order, two of them; every cut of both streams into
reads; the connection breaks after any byte of either frame. Two frames are a broken
one and the one that inherits what it left. Overhead (64 in the program),
`maxPacketSize` (1024) and the padding (4) are scaled so that the limit, a header in a
body and padding before the next frame all occur. `FramesWhole` is an action
property: in each step a decoder puts out what has arrived of the frame if a FEND that
ends it does, and nothing otherwise. The blocks' decoder does so always, because
its buffer is emptied by a wrong character. The decoder of LilacSat-1 does not where a
connection broke behind an escape: the next frame comes out behind what there was of
the one before. The decoder of DSLWP does so for the frames whose every byte it looked
at. `PacketsWhole` assumes that a frame too long for the server does not hold the header
of a packet itself (`Harmless`): the server looks for a header in it. A frame that is
not too long may. Safety only: there is nothing to schedule.

**ws_full** is a finding. `SendData` finds the queue full, prints "throw away old data"
and calls `Queue.get`, which waits. tornado's loop may have emptied the queue in
between, in another thread; then the receiving thread waits for an element that only
it would put. GNU Radio is no longer read, and a stop waits for the thread.

**afsk_wait** is a finding. `afsk.c:251` says of `afsk_tx_proc` that "this function
has to be called by the DAC ISR when a sample of the configured channel has been
converted out". In the block it is called by `work()`, in the thread that also
runs the handler; `afsk_write` waits in that handler for room (`afsk.c:433`). With
frames queued that together exceed the FIFO, the thread waits for itself and no
sample is put out any more. The run has a FIFO of 6 and two short frames; the
program's has 1023 characters, escapes counted. The same holds for
`ccsds_txwrite` and 4095 bytes: `NoSpin` proves that a client whose backlog fits is
safe.

## 5 The proofs

TLAPS proves the following for every value of the constants that satisfies the
named assumptions of the modules (lengths are naturals, sizes are positive).

**FifoBufProofs.** The inductive invariant is `TypeOK` with `TestsStayTrue`: from the
moment a context has its answer "not full" or "not empty" until it has acted on
it, the answer stays true, because the other context can only make more room or
more data. `TypeOK` alone is not inductive: a push on a stale answer would make a
full ring empty. `RoomIsExact` and `TestsAreExact` relate pointers to the length.
`ImplementsQueue` maps the ring to the sequence of its contents: `ContentsPut` and
`ContentsGet` say that a move of `tail` appends and a move of `head` takes the
first, `ContentsKept` that a store to a free slot does not show. A flush is met by
`Discard`: the queue is full before it, and nothing of it is left.

**FecEncodeProofs.** The inductive invariant has five parts beside `TypeOK`:
`PushedInv` (which bytes have been pushed, by where the handler is), `WaitingInv`
(what waits is within the backlog), `CountInv` (the history variables against the
counters), `PreambleInv` (a preamble goes out only at the boundary of a frame),
`PttInv` (`d_ptt` against the last command). Each part has a lemma that every step
preserves it. From them: `NoSpin` (with the assumption that the backlog fits the
FIFO), `GapFree`, `PreambleFirst`, `TrailerLast`, `PttCovers`, `PttClean`.

**FecDecodeProofs.** The inductive invariant is `TypeOK` with `QueueInv`, which says
how many bytes may be in the FIFO at each place of `work()`: none when it begins,
what has been written until it overflows, at least one when `ccsds_pull` starts.
`PopSafe` and `NoOtherLoss` follow. `TypeStep` is where the mask and the index of the
frame buffer are shown to stay in it. `Deframes` is the refinement of `Deframer`, step
by step: `RefinesReceive`, `RefinesHunt`, `RefinesCollect`, `RefinesComplete`, and
`RefinesStutter` for the rest. The mapping flattens the FIFO to bits, and the lemmas
about it say what the steps need: a byte pushed appends its bits (`BitsAppend`), a
byte popped takes its bits from the front (`BitsHead`), the bit behind the mask is
the first of those that wait (`FirstBit`), and a bit stored through the mask is
the next of the frame (`FirstBitsStore`). Bit k of a queue is bit k mod 8 of byte k
div 8, for any number of bits in a byte, so that none of it is an induction.

**AfskTxProofs.** A FIFO of characters has to be told from its content, which is
escaped, and the state of the receiver depends on which of its flags begin a
frame. The inductive invariant gives each character of the FIFO its place:
`FifoSource` says that there are sequences of frame numbers, places and ESCs of
which each element follows from the one before as `ax25_sendVia` goes on, and
that they end where `ax25_sendVia` is now. `ReceiverInv` says of the front end that
the receiver has the frames before it and of its own frame what comes before its
place; `BurstInv` relates the preamble, trailer and flags to it; `PttInv` says that a
`work()` that put out nothing had nothing to send. A push extends the sequences,
a character sent shifts them. `TypeCorrect` (with no ESC at the end of what `work()`
finds), `Intact`, `Covered` and `Framed` follow.

**HdlcLinkProofs.** The inductive invariant follows a frame through all the stages
at once. `SenderInv`: the characters left to be sent are the end of a frame with its
flags. `StuffInv`: within a flag the ones counted are its own, else there are five at
most. `LineInv`: a tone is received as it was sent, or is marked. `BitsInv`, of a
frame that was not hurt: the receiver has counted the same ones as the sender, it is
at the same bit of the same character and has the bits before it in `currchar`. From
these, `CleanOpening`, `CleanData` and `CleanClosing` say what `hdlc_parse` makes of
each bit: the flags at the ends and no others are found, the stuffed bits are
those it drops, and the last bit of a character completes that character.
`FifoInv` says what `ax25_poll` will do: there is a sequence of contexts, the
first of which is the present one, each of them made of the one before by the
next character of `rx_fifo`; the last has the characters of the frame so far; and
every frame has been given to the hook, is given by a flag of `rx_fifo`, is being
sent, or is excused. `CutInv` (behind a lost character `rxstart` is false until a flag
comes) is why an ESC waits for nothing but a flag. `TypeCorrect` (with the last
conjunct of `TypeOK`: `ax25_poll` meets no reset outside an escape) and
`Explained` follow, for all frames, sizes and numbers of errors.

**LilacProxyProofs.** The inductive invariant: `OnePlace` (the packet taken and not sent
is in the hand or in `ReSendBuf`, never both), `Ordered` (what is sent is 1, 2, ...),
`SenderInv` (the hand is full exactly from select to the end of send, and the reason
to select outlives it, because nobody else takes from the queue) and `LinkInv`
(attempts are counted only while `StateNow` is 1). `ConservedAlways` needs all of
them: without `SenderInv` a select could take from an empty queue, and without
`OnePlace` an error of send could overwrite a packet in `ReSendBuf`.

**DslwpProxyProofs.** The inductive invariant has six parts beside `TypeOK`. `BufInv`:
what waits in `DataBuf` is what was put and not handed over, and except while the
thread drains it, readings wait only as long as there is no sender; that is why a
reading put later cannot change one that waits. `WindowInv`: no thread runs before
the first start and after a stop, so that a start never gives a filled buffer a
second dictionary. `WsInv` (who holds an item, and that room found by the caller is
still there when it puts, because only the caller adds), `WsOrder` (numbers ascend from
what is written over what a thread holds to the queue and the caller's item) and
`WsBound` (none of them is still to come). `SkInv`: sent, held and queued items of
a sender have no gap until the server closes, and after that nothing more is sent.
`TypeCorrect` (with the bound of the websocket's queue), `HandedExactlyAlways` and
`InOrderAlways` follow, for any number of readings, starts and faults and any
length of the queue. `InOrderAlways` rests on the atomic lock of section 3: `WsInv` says
that at most one thread is in `on_connected`.

**TelemetryPathProofs.** Two invariants, since the decoders do not depend on the
server. `KissInv` says what each decoder holds: that of the blocks exactly what has
arrived of the frame, and an escape pending when the frame has one (`BlockInv`); that
of LilacSat-1 the same or, if the frame was merged, something that ends in it
(`LilacInv`); that of DSLWP the same if it looked at every byte (`DslwpInv`, which also
needs that it never returns within an escape). Lemmas about one byte (`BlockPlain`,
`DecoderEscaped`, ...) come first, then a lemma for each action which shows `KissInv'` and
the property of the step together. `DecodersWhole` follows. So does `BlockFits`: the buffer
of `kiss.c`, which `kiss_rx_byte` fills without looking at its end, never holds more than
one frame, whatever breaks, and suffices if frames fit it.

`SplitterInv` says where the server is in what the proxy packed. `Layout` gives each packet
the place where it begins in the stream and its rank among those that are due; `Cursor`
says that the server has put out all that is due before one of them, and that it looks for
this packet's header, or has found it, or has read its length; it may still be
searching the packet before, if that one is too long. `Asleep` says that `NewStream`
returns only when it can do nothing. The lemma it turns on is `NoneInside`: where the
server searches, no header stands but that of a packet. None begins in a length,
type or station's data, none ends in the header itself (no proper end of "PaC_t" is a
beginning of it), and none is in a frame that is too long, by `Harmless`; that is also
why the four bytes of `LastFour` are enough, and why a wrong length costs one byte and
no packet. `LengthBack` shows that `struct.unpack` undoes `struct.pack` up to 2^31 - 1.
`ServerWhole` follows: `AllTaken` shows that a server which sleeps at the end of the stream is
behind the last packet. Before it was proved, TLC checked `SplitterInv` on the states of the
run, with the places and ranks computed from `packets`.

Only model-checked: every liveness property (`RoomSuffices`, `FramesSent`,
`PttReleased`, `WorkEnds`, `Served`, `Delivered`, `StopEnds`), since fairness is outside
what the prover handles; the properties of concrete tables. Of
these, `line_code` goes through every state that `LineCode` has, for every value of its
constant, so that a proof would add nothing; `SyncSearch` has the real values and one
bound, `Enough`, which is the length of the register. `NoFrameTwice` of `HdlcLink` is checked for the
frames of the run only and is no theorem: a wrong tone turns two neighbouring bits
over, and the check sequence of the model, which takes every frame that was sent,
does not notice that `<<1,6>>` has become an earlier `<<1,0>>`. A real one does; the
frames of the run are farther apart than that.

## 6 What is not shown

- The values of coded bytes: Reed-Solomon, the convolutional code, Viterbi, the
  check sequence. Verdicts of decoders are arbitrary (`FecDecode`) or ideal
  (`HdlcLink`).
- Signals: tones and symbols are discrete; timing recovery and noise are reduced
  to wrong bits.
- The address field of AX.25, `setcall`, and which kind of message carries a PTT
  command.
- The scheduler of GNU Radio beyond the rule of section 1.1, and the loss of
  messages when a block is stopped.
- CCSDS over AFSK: the transmitter is `FecEncode` with a modulator behind it; the
  receiver differs from `FecDecode` in one place, where a byte is written when the
  first bit of the next one comes. `sync_det_b`, the two-bit blocks and the Node 1
  decoder search without a FIFO, in one thread and one call.
- The LilacSat-1 depacketiser: one thread fills and empties its jitter buffer in
  turn.
- The ASRTU-1 proxy: one thread that turns datagrams into texts and sends them in
  pieces when libwebsockets calls back; a new text resets the place in it.
- Two threads in tornado's lock at once (section 3). What would follow depends on
  tornado, which is not part of the repository.
- What the properties excuse. Some hazards of `PROJECT.json` are behaviours of the code
  that the models have and the properties leave out by name, so that they are
  documented here and would not be caught if they became worse: the death of the
  LilacSat sender and a packet that waits in `ReSendBuf` for the next to be posted
  (`Served`); frames behind the first one of a read in the DSLWP decoder
  (`FramesWhole`, by `missed`); the second `recv` of the DSLWP sender (`Delivered`, by
  `SocketStuck`); the silent `recv` of the receiver, and its death of a reading that
  is None (`StopEnds`).
- Sinks and sources of PDUs, which read and write files, pipes and serial lines;
  third-party codecs; demodulators, channel and orbit in floating point; parsers
  that unpack records for printing; the preamble and tailer block, which copies.
- Buffers of KISS frames but that of the blocks' decoder: `buf_kiss`, where
  `kiss_encode_pdu` puts the escaped frame and its padding, is taken to be large enough.
- Windows, settings files, logs, the update of orbits and the starting of GNU Radio
  in the proxies. AutoConnect, which no caller sets. Two ports of the DSLWP proxy
  that share a listener.
- Generated code. More than nine tenths of the repository's Python lines are two
  `Images_rc.py` of byte strings, the layouts of windows (`*_ui.py`), flow graphs
  written by GNU Radio Companion and the XML bindings of doxygen; they have no
  behaviour of their own. `map` covers hand-written code.
- Bounds of the runs: numbers of messages, errors and bytes are those of
  section 4. Nothing beyond them is claimed for `SyncSearch`, `NoFrameTwice` and
  the liveness properties.

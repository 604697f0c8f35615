----------------------------- MODULE V22Session -----------------------------
(***************************************************************************)
(* One session of modem_v22bis: the loop between the audio connection, the *)
(* modem and the data peer, with its two byte queues.                      *)
(*                                                                         *)
(* A pass is select, then audio in, data in and data out, in this order,   *)
(* on what select found (ready); caller, peer and line move in between.    *)
(* The modem itself is an oracle that asks for bits and delivers bytes as  *)
(* it likes.  The bytes to the line are numbered in the order the peer     *)
(* wrote them, modulo Count; those from the line are counted.              *)
(***************************************************************************)
EXTENDS Naturals, Sequences

CONSTANTS
    ByteBits,       \* bits of a byte (8)
    TxSize, RxSize, \* sizeof tx_q, sizeof rx_q (4096)
    ExpectHeader,   \* g_cfg.expect_header (-H)
    MaxWaiting,     \* bound: bytes in the socket of the data peer
    MaxBits,        \* bound: bits the modem asks for per read
    MaxBytes,       \* bound: bytes the modem delivers per read
    Count           \* bound: bytes are numbered modulo Count

ASSUME SessionAssumption ==
    /\ ByteBits \in Nat \ {0} /\ TxSize \in Nat \ {0} /\ RxSize \in Nat \ {0}
    /\ ExpectHeader \in BOOLEAN
    /\ MaxWaiting \in Nat /\ MaxBits \in Nat /\ MaxBytes \in Nat
    /\ Count \in Nat /\ Count > TxSize + MaxWaiting

VARIABLES
    at,             \* where the session's thread is
    ready,          \* what select found
    audio_open, data_open,  \* audio_sock >= 0, data_sock >= 0
    hdr_done,
    tx_q, tx_rd, tx_cur_bits,   \* Len(tx_q) is tx_q_len
    rx_q_len,
    pcm, hung_up,   \* the audio connection: samples to read, closed by the other end
    waiting, peer_closed,   \* the data peer: bytes not read yet, it has closed
    \* history:
    sent, line      \* the next byte the peer writes, the last one put on the line

txQueue == <<tx_q, tx_rd, tx_cur_bits, line>>
sockets == <<audio_open, data_open>>
caller == <<pcm, hung_up>>
peer == <<waiting, peer_closed, sent>>
vars == <<at, ready, sockets, hdr_done, txQueue, rx_q_len, caller, peer>>

Bytes == 0..(Count - 1)
After(b, n) == (b + n) % Count
Least(a, b) == IF a <= b THEN a ELSE b
Unsent == SubSeq(tx_q, tx_rd + 1, Len(tx_q))

Init ==
    /\ at = "dial" /\ ready = {}
    /\ audio_open = TRUE /\ data_open = FALSE
    /\ hdr_done = ~ExpectHeader
    /\ tx_q = <<>> /\ tx_rd = 0 /\ tx_cur_bits = 0
    /\ rx_q_len = 0
    /\ pcm = FALSE /\ hung_up = FALSE
    /\ waiting = <<>> /\ peer_closed = FALSE
    /\ sent = 0 /\ line = Count - 1

-----------------------------------------------------------------------------
(* The thread. *)

\* Both sockets are closed and the session is freed.
Over ==
    /\ at' = "over" /\ audio_open' = FALSE /\ data_open' = FALSE /\ ready' = {}
    /\ waiting' = <<>>

\* The data peer is dialled before anything else.
Dial ==
    /\ at = "dial"
    /\ \/ at' = "select" /\ data_open' = TRUE /\ UNCHANGED <<ready, audio_open, waiting>>
       \/ Over
    /\ UNCHANGED <<hdr_done, txQueue, rx_q_len, caller, peer_closed, sent>>

\* Mutation of Readable: the data peer is polled only while nothing is queued.
ReadableWhenEmpty ==
    (IF pcm \/ hung_up THEN {"audio"} ELSE {}) \cup
    (IF data_open /\ Len(tx_q) = 0 /\ (waiting # <<>> \/ peer_closed) THEN {"data"} ELSE {})

\* The data peer is polled only while the queue to the line has room, room that what has
\* been transmitted still takes up: DataIn moves it out, and is not reached without.
Readable ==
    (IF pcm \/ hung_up THEN {"audio"} ELSE {}) \cup
    (IF data_open /\ Len(tx_q) < TxSize /\ (waiting # <<>> \/ peer_closed) THEN {"data"} ELSE {})

Select ==
    /\ at = "select"
    /\ \/ /\ audio_open
          /\ \E room \in SUBSET (IF data_open /\ rx_q_len > 0 THEN {"room"} ELSE {}) :
                /\ Readable \cup room # {}
                /\ ready' = Readable \cup room
          /\ at' = "audio" /\ UNCHANGED <<sockets, waiting>>
       \/ ~audio_open /\ Over
    /\ UNCHANGED <<hdr_done, txQueue, rx_q_len, caller, peer_closed, sent>>

\* sess_get_bit, k times: a byte is taken from the queue when the last one is used up;
\* with none there the line gets ones.
GetBits(k) ==
    LET left == tx_cur_bits + ByteBits * Len(Unsent)
        rest == left - Least(k, left)
        rd   == Len(tx_q) - rest \div ByteBits
    IN  /\ tx_rd' = rd /\ tx_cur_bits' = rest % ByteBits
        /\ line' = IF rd > tx_rd THEN tx_q[rd] ELSE line
        /\ UNCHANGED tx_q

\* sess_put_bit for m bytes: what finds the queue full is lost.
PutBytes(m) == rx_q_len' = Least(RxSize, rx_q_len + m)

\* One read of samples, as many again written; a header in front of them is passed
\* over, in as many reads as it takes.
Block(m, k) ==
    /\ pcm' = FALSE
    /\ hdr_done' \in {hdr_done, TRUE}
    /\ hdr_done' \/ (m = 0 /\ k = 0)
    /\ PutBytes(m) /\ GetBits(k)
    /\ audio_open' \in BOOLEAN                  \* the write may fail
    /\ at' = "dataIn"
    /\ UNCHANGED <<ready, data_open, waiting>>

AudioIn ==
    /\ at = "audio"
    /\ \/ /\ "audio" \in ready /\ pcm
          /\ \E m \in 0..MaxBytes, k \in 0..MaxBits : Block(m, k)
       \/ /\ "audio" \in ready /\ Over          \* the end, an error, a header refused
          /\ UNCHANGED <<pcm, hdr_done, txQueue, rx_q_len>>
       \/ /\ "audio" \notin ready
          /\ at' = "dataIn"
          /\ UNCHANGED <<ready, sockets, waiting, pcm, hdr_done, txQueue, rx_q_len>>
    /\ UNCHANGED <<hung_up, peer_closed, sent>>

\* The data peer is forgotten, with what it wrote and we have not read.
Forget == data_open' = FALSE /\ waiting' = <<>>

\* Mutation of DataIn: the bytes are moved, the cursor is not.
DataInCursorStays ==
    /\ at = "dataIn" /\ at' = "dataOut"
    /\ \/ /\ "data" \in ready
          /\ \/ /\ \E n \in 1..Least(Len(waiting), TxSize - Len(Unsent)) :
                    /\ tx_q' = Unsent \o SubSeq(waiting, 1, n)
                    /\ waiting' = SubSeq(waiting, n + 1, Len(waiting))
                    /\ tx_rd' = Least(tx_rd, Len(tx_q'))
                /\ UNCHANGED data_open
             \/ waiting = <<>> /\ Forget /\ tx_q' = Unsent /\ tx_rd' = 0
       \/ /\ "data" \notin ready
          /\ UNCHANGED <<tx_q, tx_rd, data_open, waiting>>
    /\ UNCHANGED <<ready, audio_open, hdr_done, tx_cur_bits, line, rx_q_len, caller,
                   peer_closed, sent>>

\* Mutation of DataIn: a peer that has closed is forgotten with what it had queued.
DataInDropsQueue ==
    /\ at = "dataIn" /\ at' = "dataOut"
    /\ \/ /\ "data" \in ready
          /\ \/ /\ \E n \in 1..Least(Len(waiting), TxSize - Len(Unsent)) :
                    /\ tx_q' = Unsent \o SubSeq(waiting, 1, n)
                    /\ waiting' = SubSeq(waiting, n + 1, Len(waiting))
                /\ UNCHANGED data_open
             \/ waiting = <<>> /\ Forget /\ tx_q' = <<>>
          /\ tx_rd' = 0
       \/ /\ "data" \notin ready
          /\ UNCHANGED <<tx_q, tx_rd, data_open, waiting>>
    /\ UNCHANGED <<ready, audio_open, hdr_done, tx_cur_bits, line, rx_q_len, caller,
                   peer_closed, sent>>

\* What was sent is moved out of the queue, then the room is filled.
DataIn ==
    /\ at = "dataIn" /\ at' = "dataOut"
    /\ \/ /\ "data" \in ready
          /\ tx_rd' = 0
          /\ \/ /\ \E n \in 1..Least(Len(waiting), TxSize - Len(Unsent)) :
                    /\ tx_q' = Unsent \o SubSeq(waiting, 1, n)
                    /\ waiting' = SubSeq(waiting, n + 1, Len(waiting))
                /\ UNCHANGED data_open
             \/ (waiting = <<>> \/ peer_closed) /\ Forget /\ tx_q' = Unsent
       \/ /\ "data" \notin ready
          /\ UNCHANGED <<tx_q, tx_rd, data_open, waiting>>
    /\ UNCHANGED <<ready, audio_open, hdr_done, tx_cur_bits, line, rx_q_len, caller,
                   peer_closed, sent>>

\* The peer takes any part of the queue, or the write fails.
DataOut ==
    /\ at = "dataOut" /\ at' = "select" /\ ready' = {}
    /\ \/ /\ data_open /\ "room" \in ready
          /\ \/ rx_q_len' \in 0..(rx_q_len - 1) /\ UNCHANGED <<data_open, waiting>>
             \/ peer_closed /\ Forget /\ UNCHANGED rx_q_len
       \/ /\ ~(data_open /\ "room" \in ready)
          /\ UNCHANGED <<rx_q_len, data_open, waiting>>
    /\ UNCHANGED <<audio_open, hdr_done, txQueue, caller,
                   peer_closed, sent>>

Loop == Dial \/ Select \/ AudioIn \/ DataIn \/ DataOut

-----------------------------------------------------------------------------
(* The audio connection and the data peer (external). *)

\* The peer of the audio connection sends samples all the time, in a call.
PcmArrives ==
    /\ at # "over" /\ ~hung_up /\ ~pcm
    /\ pcm' = TRUE
    /\ UNCHANGED <<at, ready, sockets, hdr_done, txQueue, rx_q_len, hung_up, peer>>

HangUp ==
    /\ at # "over" /\ ~hung_up
    /\ hung_up' = TRUE
    /\ UNCHANGED <<at, ready, sockets, hdr_done, txQueue, rx_q_len, pcm, peer>>

PeerWrites ==
    /\ data_open /\ ~peer_closed /\ Len(waiting) < MaxWaiting
    /\ waiting' = Append(waiting, sent) /\ sent' = After(sent, 1)
    /\ UNCHANGED <<at, ready, sockets, hdr_done, txQueue, rx_q_len, caller, peer_closed>>

PeerCloses ==
    /\ data_open /\ ~peer_closed
    /\ peer_closed' = TRUE
    /\ UNCHANGED <<at, ready, sockets, hdr_done, txQueue, rx_q_len, caller, waiting, sent>>

Next == Loop \/ PcmArrives \/ HangUp \/ PeerWrites \/ PeerCloses

Spec == Init /\ [][Next]_vars

\* The thread runs, samples keep coming in a call, and a modem that is given samples
\* again and again asks for bits again and again.
FairSpec ==
    /\ Spec
    /\ WF_vars(Loop) /\ WF_vars(PcmArrives)
    /\ SF_vars(AudioIn /\ \E m \in 0..MaxBytes, k \in 1..MaxBits : Block(m, k))

-----------------------------------------------------------------------------
(* Properties. *)

TypeOK ==
    /\ at \in {"dial", "select", "audio", "dataIn", "dataOut", "over"}
    /\ ready \subseteq {"audio", "data", "room"}
    /\ {audio_open, data_open, hdr_done, pcm, hung_up, peer_closed} \subseteq BOOLEAN
    /\ tx_q \in Seq(Bytes) /\ Len(tx_q) <= TxSize
    /\ tx_rd \in 0..Len(tx_q) /\ tx_cur_bits \in 0..(ByteBits - 1)
    /\ rx_q_len \in 0..RxSize
    /\ waiting \in Seq(Bytes) /\ Len(waiting) <= MaxWaiting
    /\ {sent, line} \subseteq Bytes

\* The line gets what the data peer writes without a gap, a repetition or a change of
\* order: what is queued and what is unread follow, in order, on what is on the line.
PeerBytesInOrder ==
    LET unsent == Unsent \o waiting
    IN  \A i \in DOMAIN unsent : unsent[i] = After(line, i)

\* What is queued is transmitted while the call lasts, also when the data peer has
\* closed behind it.
QueuedIsTransmitted ==
    \A b \in Bytes : (Unsent # <<>> /\ line = b) ~> (line # b \/ at = "over")

\* What the data peer writes is read while the call lasts, unless a burst fills the queue
\* to its last byte: what has been transmitted in the meantime makes room again.
UnreadIsReadBelowFull ==
    \A b \in Bytes :
        (waiting # <<>> /\ Head(waiting) = b) ~>
            (waiting = <<>> \/ Head(waiting) # b \/ Len(tx_q) = TxSize)

\* What the data peer writes is read while the call lasts, whatever it writes at once
\* (modem_v22bis.c:284: "compact first so the read cursor doesn't strand space at the
\* front").
UnreadIsRead ==
    \A b \in Bytes :
        (waiting # <<>> /\ Head(waiting) = b) ~> (waiting = <<>> \/ Head(waiting) # b)
=============================================================================

----------------------------- MODULE FskSession -----------------------------
(***************************************************************************)
(* modem_fsk: the accept loop with its session cap, and one session of     *)
(* it, followed sample by sample to the deframer of a far end.             *)
(*                                                                         *)
(* A pass of the session's loop is select, audio in, carrier and banner,   *)
(* dial, data in, data out, on what select found (ready) and the room it   *)
(* saw; caller, data peer, accept loop and the other sessions move in      *)
(* between.  What the caller sends is an oracle: a level, and bytes.  The  *)
(* audio connection takes every sample we write (one for one that came).   *)
(***************************************************************************)
EXTENDS FskFraming, FiniteSets

CONSTANTS
    TxSize, RxSize, \* sizeof tx_q, sizeof rx_q (1280)
    LeadIn,         \* g_cfg.carrier_leadin_ms, in samples
    BannerLen,      \* g_cfg.banner_len of a session with a banner
    Prefix, HeaderLen,  \* bytes of the header's fixed part (12), of the whole header
    MaxSessions,    \* g_cfg.max_sessions (-m), not 0
    ReadBytes,      \* bound: bytes of samples per read (640)
    PeerBytes,      \* bound: the bytes the data peers write
    MaxWritten,     \* bound: how many in a session
    MaxOthers       \* bound: other sessions

ASSUME SessionAssumption ==
    /\ {TxSize, RxSize, BannerLen, MaxSessions, ReadBytes} \subseteq Nat \ {0}
    /\ {LeadIn, Prefix, HeaderLen, MaxWritten, MaxOthers} \subseteq Nat
    /\ Prefix < HeaderLen /\ PeerBytes \subseteq Bytes

VARIABLES
    opt,            \* g_cfg: -w, -B, -b; whether other sessions come and go
    at,             \* where the session's thread is; "none" before and after it
    ready, room,    \* what select found, tx_room
    audio_open, data_open,
    hdr, stage,     \* bytes of the header read, in_stage_len
    todo,           \* samples of a read that are not processed yet
    s,              \* session_t as process_sample sees it
    carrier_seen, connect_at, banner_sent,
    pcm, hung_up,   \* the audio connection: samples to read, closed by the other end
    waiting, peer_closed, written,  \* the data peer: unread, closed; bytes written so far
    far,            \* the far end: its deframer, the bytes it is owed, an error it made
    main, count, others \* the accept loop, g_session_count, other sessions' threads

sockets == <<audio_open, data_open>>
header == <<hdr, stage>>
dialling == <<carrier_seen, connect_at, banner_sent>>
caller == <<pcm, hung_up>>
peer == <<waiting, peer_closed, written>>
server == <<main, count, others>>
session == <<at, ready, room, sockets, header, todo, s, dialling>>
vars == <<opt, session, caller, peer, far, server>>

Least(a, b) == IF a <= b THEN a ELSE b
Banner == [i \in 1..BannerLen |-> [bit \in 1..DataBits |-> bit % 2 = 0]]

SessionStart == [tx |-> TxStart, tx_q |-> <<>>, tx_leadin |-> LeadIn, rx_q_len |-> 0,
                 break_state |-> "idle", rx |-> RxStart]
FarStart == [rx |-> RxStart, owed |-> <<>>, garbled |-> FALSE]

Init ==
    /\ opt \in [wait_carrier : BOOLEAN, break_after_cd : BOOLEAN, banner : BOOLEAN,
                crowd : BOOLEAN]
    /\ at = "none" /\ audio_open = FALSE /\ written = 0
    /\ ready = {} /\ room = 0 /\ data_open = FALSE
    /\ hdr = 0 /\ stage = 0 /\ todo = 0 /\ s = SessionStart
    /\ carrier_seen = FALSE /\ connect_at = "unset" /\ banner_sent = 0
    /\ pcm = FALSE /\ hung_up = FALSE /\ waiting = <<>> /\ peer_closed = FALSE
    /\ far = FarStart
    /\ main = [at |-> "accept", n |-> 0] /\ count = 0 /\ others = 0

-----------------------------------------------------------------------------
(* The accept loop. *)

\* A connection is counted before its fate is known.
Accept ==
    /\ main.at = "accept" /\ count < MaxSessions + MaxOthers
    /\ opt.crowd \/ count = 0
    /\ count' = count + 1 /\ main' = [at |-> "counted", n |-> count + 1]
    /\ UNCHANGED <<opt, session, caller, peer, far, others>>

\* Mutation of Admit: a connection that is turned away stays counted.
AdmitForgets ==
    /\ main.at = "counted" /\ main' = [at |-> "accept", n |-> 0]
    /\ \/ main.n > MaxSessions /\ UNCHANGED <<at, audio_open, count, others>>
       \/ /\ main.n <= MaxSessions /\ at = "none"
          /\ at' = "start" /\ audio_open' = TRUE /\ UNCHANGED <<count, others>>
       \/ /\ main.n <= MaxSessions /\ others < MaxOthers
          /\ others' = others + 1 /\ UNCHANGED <<at, audio_open, count>>
    /\ UNCHANGED <<opt, ready, room, data_open, header, todo, s, dialling, caller, peer, far>>

\* Mutation of Admit: a connection beyond the cap gets a thread all the same.
AdmitOverCap ==
    /\ main.at = "counted" /\ main' = [at |-> "accept", n |-> 0]
    /\ \/ count' = count - 1 /\ UNCHANGED <<at, audio_open, others>>
       \/ /\ at = "none"
          /\ at' = "start" /\ audio_open' = TRUE /\ UNCHANGED <<count, others>>
       \/ /\ others < MaxOthers
          /\ others' = others + 1 /\ UNCHANGED <<at, audio_open, count>>
    /\ UNCHANGED <<opt, ready, room, data_open, header, todo, s, dialling, caller, peer, far>>

\* Over the cap, out of memory or of threads: closed and uncounted.  Otherwise it gets
\* a thread: the session that is followed, or another.
Admit ==
    /\ main.at = "counted" /\ main' = [at |-> "accept", n |-> 0]
    /\ \/ count' = count - 1 /\ UNCHANGED <<at, audio_open, others>>
       \/ /\ main.n <= MaxSessions /\ at = "none"
          /\ at' = "start" /\ audio_open' = TRUE /\ UNCHANGED <<count, others>>
       \/ /\ main.n <= MaxSessions /\ others < MaxOthers
          /\ others' = others + 1 /\ UNCHANGED <<at, audio_open, count>>
    /\ UNCHANGED <<opt, ready, room, data_open, header, todo, s, dialling, caller, peer, far>>

OtherEnds ==
    /\ others > 0 /\ others' = others - 1 /\ count' = count - 1
    /\ UNCHANGED <<opt, session, caller, peer, far, main>>

-----------------------------------------------------------------------------
(* The session's thread. *)

\* Both sockets are closed; the session is freed, then uncounted.
Over ==
    /\ at' = "over" /\ audio_open' = FALSE /\ data_open' = FALSE /\ ready' = {}

Uncount ==
    /\ at = "over" /\ at' = "none" /\ count' = count - 1
    /\ ready' = {} /\ room' = 0 /\ hdr' = 0 /\ stage' = 0 /\ todo' = 0 /\ s' = SessionStart
    /\ carrier_seen' = FALSE /\ connect_at' = "unset" /\ banner_sent' = 0
    /\ pcm' = FALSE /\ hung_up' = FALSE /\ waiting' = <<>> /\ peer_closed' = FALSE
    /\ far' = FarStart
    /\ written' = 0
    /\ UNCHANGED <<opt, sockets, main, others>>

\* tcp_connect_data: a new data peer, or the end of the session.
Connect(next) ==
    \/ /\ at' = next /\ data_open' = TRUE /\ peer_closed' = FALSE /\ waiting' = <<>>
       /\ UNCHANGED <<audio_open, ready>>
    \/ Over /\ UNCHANGED <<peer_closed, waiting>>

\* Without -w and -b the data peer is dialled before anything else.  Whether a header
\* is expected (-H) is taken from here on: one that is not has been read.
Start ==
    /\ at = "start" /\ hdr' \in {0, HeaderLen}
    /\ \/ /\ opt.wait_carrier \/ opt.banner
          /\ at' = "select" /\ UNCHANGED <<sockets, ready, waiting, peer_closed>>
       \/ ~opt.wait_carrier /\ ~opt.banner /\ Connect("select")
    /\ UNCHANGED <<opt, room, stage, todo, s, dialling, caller, written, far, server>>

TxRoom == TxSize - Len(s.tx_q)

Readable ==
    (IF pcm \/ hung_up THEN {"audio"} ELSE {}) \cup
    (IF data_open /\ TxRoom > 0 /\ (waiting # <<>> \/ peer_closed) THEN {"data"} ELSE {})

\* A pass on a time-out matters only when the dialling delay has passed.
Select ==
    /\ at = "select"
    /\ \/ /\ audio_open
          /\ \E write \in SUBSET (IF data_open /\ s.rx_q_len > 0 THEN {"write"} ELSE {}) :
                /\ Readable \cup write # {} \/ (connect_at = "passed" /\ ~data_open)
                /\ ready' = Readable \cup write
          /\ room' = TxRoom /\ at' = "audio" /\ UNCHANGED sockets
       \/ ~audio_open /\ Over /\ UNCHANGED room
    /\ UNCHANGED <<opt, header, todo, s, dialling, caller, peer, far, server>>

\* What the far end makes of one of our samples; it is followed up to a break.
FarHears(f, tone) ==
    LET heard == RxSample(f.rx, TRUE, tone)
    IN  CASE heard[2] = NoByte -> [f EXCEPT !.rx = heard[1]]
          [] f.owed # <<>> /\ heard[2] = Head(f.owed) ->
                [f EXCEPT !.rx = heard[1], !.owed = Tail(@)]
          [] OTHER -> [f EXCEPT !.rx = heard[1], !.garbled = TRUE]

\* Mutation of ProcessSample: the queue to the data peer is not looked at.
ProcessSampleUnbounded(p, byte, level) ==
    LET q == [p[1] EXCEPT
                !.rx = SenseCarrier(@, level),
                !.tx.break = IF byte /\ p[1].break_state = "active" THEN FALSE ELSE @,
                !.break_state = IF byte /\ @ = "active" THEN "done" ELSE @,
                !.rx_q_len = IF byte THEN @ + 1 ELSE @]
        lead == q.tx_leadin > 0
        out == TxSample(q.tx, IF lead THEN <<>> ELSE q.tx_q)
    IN  <<[q EXCEPT !.tx = out.tx,
                    !.tx_q = IF lead THEN @ ELSE out.queue,
                    !.tx_leadin = IF lead THEN @ - 1 ELSE 0],
          IF q.break_state = "idle" THEN FarHears(p[2], out.tone) ELSE FarStart>>

\* Mutation of ProcessSample: no lead-in.
ProcessSampleNoLead(p, byte, level) ==
    LET q == [p[1] EXCEPT
                !.rx = SenseCarrier(@, level),
                !.tx.break = IF byte /\ p[1].break_state = "active" THEN FALSE ELSE @,
                !.break_state = IF byte /\ @ = "active" THEN "done" ELSE @,
                !.rx_q_len = IF byte THEN Least(@ + 1, RxSize) ELSE @]
        lead == FALSE
        out == TxSample(q.tx, IF lead THEN <<>> ELSE q.tx_q)
    IN  <<[q EXCEPT !.tx = out.tx,
                    !.tx_q = IF lead THEN @ ELSE out.queue,
                    !.tx_leadin = IF lead THEN @ - 1 ELSE 0],
          IF q.break_state = "idle" THEN FarHears(p[2], out.tone) ELSE FarStart>>

\* Mutation of ProcessSample: the lead-in goes by only while nothing is queued.
ProcessSampleLeadStays(p, byte, level) ==
    LET q == [p[1] EXCEPT
                !.rx = SenseCarrier(@, level),
                !.tx.break = IF byte /\ p[1].break_state = "active" THEN FALSE ELSE @,
                !.break_state = IF byte /\ @ = "active" THEN "done" ELSE @,
                !.rx_q_len = IF byte THEN Least(@ + 1, RxSize) ELSE @]
        lead == q.tx_leadin > 0
        out == TxSample(q.tx, IF lead THEN <<>> ELSE q.tx_q)
    IN  <<[q EXCEPT !.tx = out.tx,
                    !.tx_q = IF lead THEN @ ELSE out.queue,
                    !.tx_leadin = IF lead /\ q.tx_q = <<>> THEN @ - 1 ELSE @],
          IF q.break_state = "idle" THEN FarHears(p[2], out.tone) ELSE FarStart>>

\* process_sample on <<session, far end>>: the sample that came may complete a byte.
ProcessSample(p, byte, level) ==
    LET q == [p[1] EXCEPT
                !.rx = SenseCarrier(@, level),
                !.tx.break = IF byte /\ p[1].break_state = "active" THEN FALSE ELSE @,
                !.break_state = IF byte /\ @ = "active" THEN "done" ELSE @,
                !.rx_q_len = IF byte THEN Least(@ + 1, RxSize) ELSE @]
        lead == q.tx_leadin > 0
        out == TxSample(q.tx, IF lead THEN <<>> ELSE q.tx_q)
    IN  <<[q EXCEPT !.tx = out.tx,
                    !.tx_q = IF lead THEN @ ELSE out.queue,
                    !.tx_leadin = IF lead THEN @ - 1 ELSE 0],
          IF q.break_state = "idle" THEN FarHears(p[2], out.tone) ELSE FarStart>>

\* consume_header on n bytes: how many of them belong to the header, how many are then
\* read of it in all.  Without the magic the rest is taken for samples.
HeaderTakes(n) ==
    IF hdr + n < Prefix THEN {<<n, hdr + n>>}
    ELSE {<<Least(n, HeaderLen - hdr), Least(hdr + n, HeaderLen)>>}
         \cup (IF hdr < Prefix THEN {<<Prefix - hdr, HeaderLen>>} ELSE {})

\* A read: what is left of the header, then samples of two bytes, one of which may have
\* come with the read before.
AudioIn ==
    /\ at = "audio"
    /\ \/ /\ "audio" \in ready /\ pcm /\ pcm' = FALSE
          /\ \E n \in 1..ReadBytes :
                \/ /\ hdr < Prefix /\ hdr + n >= Prefix      \* a format we do not take
                   /\ Over /\ UNCHANGED <<header, todo>>
                \/ /\ \E h \in HeaderTakes(n) :
                          LET bytes == stage + n - h[1]
                          IN  hdr' = h[2] /\ stage' = bytes % 2 /\ todo' = bytes \div 2
                   /\ at' = "samples" /\ UNCHANGED <<sockets, ready>>
       \/ /\ "audio" \in ready /\ hung_up /\ Over /\ UNCHANGED <<header, todo, pcm>>
       \/ /\ "audio" \notin ready /\ at' = "line"
          /\ UNCHANGED <<sockets, ready, header, todo, pcm>>
    /\ UNCHANGED <<opt, room, s, dialling, hung_up, peer, far, server>>

\* What the caller's level may be; it is all the same once carrier and break are behind.
Levels ==
    IF (opt.wait_carrier /\ ~carrier_seen) \/ (opt.break_after_cd /\ s.break_state = "idle")
    THEN BOOLEAN ELSE {TRUE}

Sample ==
    /\ at = "samples" /\ todo > 0 /\ todo' = todo - 1
    /\ \E byte \in BOOLEAN, level \in Levels :
          LET after == ProcessSample(<<s, far>>, byte, level) IN s' = after[1] /\ far' = after[2]
    /\ UNCHANGED <<opt, at, ready, room, sockets, header, dialling, caller, peer, server>>

\* out_buf is written, and the write may fail.
AudioOut ==
    /\ at = "samples" /\ todo = 0 /\ at' = "line"
    /\ audio_open' \in (IF hung_up THEN BOOLEAN ELSE {TRUE})
    /\ UNCHANGED <<opt, ready, room, data_open, header, todo, s, dialling, caller, peer, far,
                   server>>

LinkReady == ~opt.wait_carrier \/ carrier_seen
BannerDone == ~opt.banner \/ (banner_sent >= BannerLen /\ s.tx_q = <<>>)

\* The first carrier arms the dialling delay and starts the break.
OnCarrier ==
    LET first == s.rx.carrier /\ opt.wait_carrier /\ ~data_open /\ ~carrier_seen
    IN  /\ carrier_seen' = (carrier_seen \/ first)
        /\ connect_at' = IF first THEN "armed" ELSE connect_at

Broken(t) ==
    IF t.rx.carrier /\ opt.break_after_cd /\ t.break_state = "idle"
    THEN [t EXCEPT !.tx.break = TRUE, !.break_state = "active"] ELSE t

\* The queue of session t, and the far end's due, with more bytes at the end.
Queue(t, bytes) ==
    /\ s' = [t EXCEPT !.tx_q = @ \o bytes]
    /\ far' = IF t.break_state = "idle" THEN [far EXCEPT !.owed = @ \o bytes] ELSE FarStart

\* What follows on the carrier, then as much of the banner as there is room for.
CarrierAndBanner ==
    /\ at = "line" /\ at' = "dial"
    /\ OnCarrier
    /\ LET ready_now == ~opt.wait_carrier \/ carrier_seen'
           n == IF opt.banner /\ ready_now THEN Least(BannerLen - banner_sent, TxRoom) ELSE 0
       IN  /\ Queue(Broken(s), SubSeq(Banner, banner_sent + 1, banner_sent + n))
           /\ banner_sent' = banner_sent + n
    /\ UNCHANGED <<opt, ready, room, sockets, header, todo, caller, peer, server>>

Due == /\ ~data_open /\ LinkReady /\ BannerDone
       /\ opt.wait_carrier => connect_at = "passed"

\* Mutation of Dial: the data peer is dialled once.
DialOnce ==
    /\ at = "dial"
    /\ \/ Due /\ ~peer_closed /\ Connect("dataIn")
       \/ (~Due \/ peer_closed) /\ at' = "dataIn"
          /\ UNCHANGED <<sockets, ready, waiting, peer_closed>>
    /\ UNCHANGED <<opt, room, header, todo, s, dialling, caller, written, far, server>>

Dial ==
    /\ at = "dial"
    /\ \/ Due /\ Connect("dataIn")
       \/ ~Due /\ at' = "dataIn" /\ UNCHANGED <<sockets, ready, waiting, peer_closed>>
    /\ UNCHANGED <<opt, room, header, todo, s, dialling, caller, written, far, server>>

\* What the data peer wrote, up to the room that there was before select.
DataIn ==
    /\ at = "dataIn" /\ at' = "dataOut"
    /\ \/ /\ data_open /\ room > 0 /\ "data" \in ready
          /\ \/ /\ \E n \in 1..Least(Len(waiting), room) :
                    /\ Queue(s, SubSeq(waiting, 1, n))
                    /\ waiting' = SubSeq(waiting, n + 1, Len(waiting))
                /\ UNCHANGED data_open
             \/ /\ waiting = <<>> /\ peer_closed /\ data_open' = FALSE
                /\ UNCHANGED <<s, far, waiting>>
       \/ /\ ~(data_open /\ room > 0 /\ "data" \in ready)
          /\ UNCHANGED <<s, far, waiting, data_open>>
    /\ UNCHANGED <<opt, ready, room, audio_open, header, todo, dialling, caller, peer_closed,
                   written, server>>

\* The peer takes any part of the queue, or the write fails.
DataOut ==
    /\ at = "dataOut" /\ at' = "select" /\ ready' = {} /\ room' = 0
    /\ \/ /\ data_open /\ "write" \in ready
          /\ \/ /\ \E left \in 0..(s.rx_q_len - 1) : s' = [s EXCEPT !.rx_q_len = left]
                /\ UNCHANGED <<data_open, waiting>>
             \/ peer_closed /\ data_open' = FALSE /\ waiting' = <<>> /\ UNCHANGED s
       \/ /\ ~(data_open /\ "write" \in ready) /\ UNCHANGED <<s, data_open, waiting>>
    /\ UNCHANGED <<opt, audio_open, header, todo, dialling, caller, peer_closed, written, far, server>>

Loop == \/ Start \/ Select \/ AudioIn \/ Sample \/ AudioOut \/ CarrierAndBanner \/ Dial \/ DataIn \/ DataOut
        \/ Uncount

-----------------------------------------------------------------------------
(* Time, the audio connection and the data peer (external).  They move while the thread *)
(* is in select: what they do later in a pass it sees no sooner than there, a write to  *)
(* a peer that has closed excepted.                                                     *)

Waiting == at = "select"

\* connect_at passes.
DelayPasses ==
    /\ Waiting /\ connect_at = "armed" /\ connect_at' = "passed"
    /\ UNCHANGED <<opt, at, ready, room, sockets, header, todo, s, carrier_seen, banner_sent,
                   caller, peer, far, server>>

PcmArrives ==
    /\ Waiting /\ ~hung_up /\ ~pcm /\ ~opt.crowd /\ pcm' = TRUE
    /\ UNCHANGED <<opt, session, hung_up, peer, far, server>>

HangUp ==
    /\ Waiting /\ ~hung_up /\ hung_up' = TRUE
    /\ UNCHANGED <<opt, session, pcm, peer, far, server>>

PeerWrites ==
    /\ Waiting /\ data_open /\ ~peer_closed /\ written < MaxWritten /\ written' = written + 1
    /\ \E byte \in PeerBytes : waiting' = Append(waiting, byte)
    /\ UNCHANGED <<opt, session, caller, peer_closed, far, server>>

PeerCloses ==
    /\ Waiting \/ at = "dataOut"
    /\ data_open /\ ~peer_closed /\ peer_closed' = TRUE
    /\ UNCHANGED <<opt, session, caller, waiting, written, far, server>>

Next == \/ Loop \/ Accept \/ Admit \/ OtherEnds
        \/ DelayPasses \/ PcmArrives \/ HangUp \/ PeerWrites \/ PeerCloses

Spec == Init /\ [][Next]_vars

\* The thread runs, samples keep coming in a call, time passes; strong, for the latter
\* two are steps of the model in select only.
FairSpec == Spec /\ WF_vars(Loop) /\ SF_vars(PcmArrives) /\ SF_vars(DelayPasses)

-----------------------------------------------------------------------------
(* Properties. *)

TypeOK ==
    /\ at \in {"none", "start", "select", "audio", "samples", "line", "dial", "dataIn",
               "dataOut", "over"}
    /\ ready \subseteq {"audio", "data", "write"} /\ room \in 0..TxSize
    /\ {audio_open, data_open, pcm, hung_up, peer_closed, carrier_seen} \subseteq BOOLEAN
    /\ hdr \in 0..HeaderLen /\ stage \in 0..1 /\ todo \in 0..ReadBytes /\ banner_sent \in 0..BannerLen
    /\ Len(s.tx_q) <= TxSize /\ s.rx_q_len \in 0..RxSize /\ s.tx_leadin \in 0..LeadIn
    /\ count \in Nat /\ others \in 0..MaxOthers

\* Every session that runs is counted, and none but those and the connection the accept
\* loop is deciding on, whatever way each of them ends; so the cap bounds the threads.
CountMatches ==
    /\ count = others + (IF at = "none" THEN 0 ELSE 1) + (IF main.at = "counted" THEN 1 ELSE 0)
    /\ others + (IF at = "none" THEN 0 ELSE 1) <= MaxSessions

\* Until a break is sent, a far end reads banner and data as they were queued: no byte
\* is lost, not the first, none invented, none changed.
FarReadsInOrder == ~far.garbled

\* A caller whose link is up is connected to a data peer, however often the peer
\* closes, unless the call ends or a break waits for the caller's first byte.
DataPeerDialled ==
    at \notin {"none", "over"} /\ ~opt.crowd /\ LinkReady /\ ~data_open ~>
        data_open \/ at \in {"none", "over"} \/ s.break_state = "active"

\* What was queued for the line is heard by the far end, unless the call ends or a
\* break spoils it.
QueuedIsHeard ==
    far.owed # <<>> /\ ~opt.crowd ~> far.owed = <<>> \/ at = "over"
=============================================================================

---------------------------- MODULE AudioBridge ----------------------------
(***************************************************************************)
(* io_loop: the audio bridge of one established call, between the RTP      *)
(* socket and the TCP audio peer.                                          *)
(*                                                                         *)
(* A pass of the loop is select, then RTP, TCP, dispatch pipe and the 20   *)
(* ms tick, in this order, on what select found (ready) and on the room    *)
(* that was left in the staging buffer when it was called (tcp_room).  The *)
(* peer, the caller and the clock move between any two of these steps.     *)
(*                                                                         *)
(* Audio is counted in bytes, not kept: of its content the properties need *)
(* only how it is cut into samples.  The codec fixes Frame, Sample and the *)
(* bytes a packet decodes to; encoding and decoding are not modelled.      *)
(***************************************************************************)
EXTENDS Integers, Sequences

CONSTANTS
    Frame,          \* codec_tcp_bytes: bytes on the TCP side per 20 ms
    Sample,         \* bytes of a sample: 2 for s16le, 1 for CLEARMODE
    BufBytes,       \* sizeof tcp_rx_buf
    Decoded,        \* bytes an RTP packet may decode to; 0: ignored
    IgnoreRtp,      \* srv->ignore_rtp_rx (-i)
    MaxSent,        \* bound: bytes the peer writes
    MaxQueue,       \* bound: RTP packets in the socket
    MaxDue,         \* bound: ticks the loop may be late
    MaxLead         \* bound: where lead saturates

ASSUME FrameAssumption ==
    /\ Sample \in Nat \ {0} /\ Frame \in Nat \ {0} /\ BufBytes \in Nat /\ BufBytes >= Frame
    /\ Frame % Sample = 0
    /\ Decoded \subseteq Nat /\ \A n \in Decoded : n % Sample = 0
ASSUME BoundAssumption ==
    /\ MaxSent \in Nat /\ MaxQueue \in Nat /\ MaxDue \in Nat \ {0} /\ MaxLead \in Nat \ {0}
    /\ IgnoreRtp \in BOOLEAN

VARIABLES
    at,             \* where the loop is
    ready, tcp_room,    \* what select found, and the room it was called with
    tcp_open,       \* c->tcp_sock >= 0
    tcp_rx_len,     \* bytes staged for the next RTP packets
    got_rtp_in_tick,
    due,            \* 20 ms instants that have passed and are not served
    rtp_in,         \* packets in the RTP socket, by what they decode to
    ctl,            \* what the dispatch pipe holds: "none", "bye" or "other"
    inq, peer_closed,   \* the TCP peer: bytes not read yet; it has closed
    \* history:
    sent, played,   \* bytes the peer wrote, bytes put into RTP
    broken,         \* our socket was closed by an error, not by the peer's close
    lead,           \* writes to the peer minus ticks served
    rx_skew         \* how far what the peer gets is off a sample boundary

socket == <<tcp_open, broken>>
peer == <<inq, peer_closed, sent>>
staging == <<tcp_rx_len, played>>
toPeer == <<lead, rx_skew>>
vars == <<at, ready, tcp_room, socket, staging, got_rtp_in_tick, due, rtp_in, ctl, peer, toPeer>>

Least(a, b) == IF a <= b THEN a ELSE b

Init ==
    /\ at = "select" /\ ready = {} /\ tcp_room = 0
    /\ tcp_open = TRUE /\ broken = FALSE
    /\ tcp_rx_len = 0 /\ played = 0
    /\ got_rtp_in_tick = FALSE /\ due = 0
    /\ rtp_in = <<>> /\ ctl = "none"
    /\ inq = 0 /\ peer_closed = FALSE /\ sent = 0
    /\ lead = 0 /\ rx_skew = 0

-----------------------------------------------------------------------------
(* The loop.  ready and tcp_room are cleared when they have served, so that two *)
(* states do not differ in values nothing reads.                                *)

\* tcp_write of len bytes, when writes minus ticks is then ahead: the kernel takes
\* any part of them; the rest is dropped on EAGAIN, or the socket fails.
TcpWrite(len, ahead) ==
    IF ~tcp_open
    THEN UNCHANGED socket /\ lead' = ahead /\ UNCHANGED rx_skew
    ELSE /\ lead' = ahead
         /\ \/ /\ \E accepted \in 0..len : rx_skew' = (rx_skew + len - accepted) % Sample
               /\ UNCHANGED socket
            \/ /\ tcp_open' = FALSE /\ broken' = TRUE
               /\ UNCHANGED rx_skew

Readable ==
    (IF rtp_in # <<>> THEN {"rtp"} ELSE {}) \cup (IF ctl # "none" THEN {"ctl"} ELSE {}) \cup
    (IF tcp_open /\ tcp_rx_len < BufBytes /\ (inq > 0 \/ peer_closed) THEN {"tcp"} ELSE {})

\* Blocks until a socket is readable or the next tick is due.
Select ==
    /\ at = "select"
    /\ Readable # {} \/ due > 0
    /\ ready' = Readable
    /\ tcp_room' = IF tcp_open THEN BufBytes - tcp_rx_len ELSE 0
    /\ at' = "rtp"
    /\ UNCHANGED <<socket, staging, got_rtp_in_tick, due, rtp_in, ctl, peer, toPeer>>

\* One packet is received; one of another payload type, or empty, is ignored.
RtpRx ==
    /\ at = "rtp" /\ at' = "tcp"
    /\ \/ /\ "rtp" \in ready
          /\ rtp_in' = Tail(rtp_in)
          /\ got_rtp_in_tick' = (got_rtp_in_tick \/ Head(rtp_in) > 0)
          /\ IF Head(rtp_in) > 0 /\ ~IgnoreRtp
             THEN TcpWrite(Head(rtp_in), Least(lead + 1, MaxLead))
             ELSE UNCHANGED <<socket, toPeer>>
       \/ /\ "rtp" \notin ready
          /\ UNCHANGED <<rtp_in, got_rtp_in_tick, socket, toPeer>>
    /\ UNCHANGED <<ready, tcp_room, staging, due, ctl, peer>>

\* Mutation of TcpRx: a peer that has closed is dropped with what it wrote before.
TcpRxEager ==
    /\ at = "tcp" /\ at' = "ctl" /\ tcp_room' = 0
    /\ IF tcp_open /\ "tcp" \in ready
       THEN IF peer_closed
            THEN tcp_open' = FALSE /\ UNCHANGED <<inq, tcp_rx_len>>
            ELSE /\ UNCHANGED tcp_open
                 /\ \E r \in 1..Least(inq, tcp_room) : inq' = inq - r /\ tcp_rx_len' = tcp_rx_len + r
       ELSE UNCHANGED <<tcp_open, inq, tcp_rx_len>>
    /\ UNCHANGED <<ready, broken, played, got_rtp_in_tick, due, rtp_in, ctl,
                   peer_closed, sent, toPeer>>

TcpRx ==
    /\ at = "tcp" /\ at' = "ctl" /\ tcp_room' = 0
    /\ \/ /\ tcp_open /\ "tcp" \in ready
          /\ \/ /\ \E r \in 1..Least(inq, tcp_room) :
                      inq' = inq - r /\ tcp_rx_len' = tcp_rx_len + r
                /\ UNCHANGED socket
             \/ /\ inq = 0 /\ peer_closed           \* read returns 0
                /\ tcp_open' = FALSE
                /\ UNCHANGED <<broken, inq, tcp_rx_len>>
             \/ /\ tcp_open' = FALSE /\ broken' = TRUE      \* a hard error
                /\ UNCHANGED <<inq, tcp_rx_len>>
       \/ /\ ~(tcp_open /\ "tcp" \in ready)
          /\ UNCHANGED <<socket, inq, tcp_rx_len>>
    /\ UNCHANGED <<ready, played, got_rtp_in_tick, due, rtp_in, ctl,
                   peer_closed, sent, toPeer>>

\* Mutation of Control: RTP that is ready is taken for the call still going on.
ControlPrefersRtp ==
    /\ at = "ctl" /\ ready' = {}
    /\ at' = IF "ctl" \in ready /\ ctl = "bye" /\ "rtp" \notin ready THEN "done" ELSE "tick"
    /\ ctl' = IF "ctl" \in ready THEN "none" ELSE ctl
    /\ UNCHANGED <<tcp_room, socket, staging, got_rtp_in_tick, due, rtp_in, peer, toPeer>>

\* The dispatch pipe: a BYE ends the loop.
Control ==
    /\ at = "ctl" /\ ready' = {}
    /\ at' = IF "ctl" \in ready /\ ctl = "bye" THEN "done" ELSE "tick"
    /\ ctl' = IF "ctl" \in ready THEN "none" ELSE ctl
    /\ UNCHANGED <<tcp_room, socket, staging, got_rtp_in_tick, due, rtp_in, peer, toPeer>>

\* Mutation of Tick: what is staged beyond the frame is not moved up but dropped.
TickDropsRest ==
    /\ at = "tick" /\ at' = "select"
    /\ IF due > 0
       THEN /\ due' = due - 1 /\ tcp_rx_len' = 0 /\ got_rtp_in_tick' = FALSE
            /\ played' = played + Least(tcp_rx_len, Frame)
            /\ IF got_rtp_in_tick \/ IgnoreRtp
               THEN UNCHANGED <<socket, rx_skew>> /\ lead' = lead - 1
               ELSE TcpWrite(Frame, lead)
       ELSE UNCHANGED <<due, staging, socket, toPeer, got_rtp_in_tick>>
    /\ UNCHANGED <<ready, tcp_room, rtp_in, ctl, peer>>

\* Mutation of Tick: RTP seen once keeps the idle fill off.
TickKeepsGot ==
    /\ at = "tick" /\ at' = "select"
    /\ IF due > 0
       THEN /\ due' = due - 1 /\ UNCHANGED staging /\ UNCHANGED got_rtp_in_tick
            /\ IF got_rtp_in_tick \/ IgnoreRtp
               THEN UNCHANGED <<socket, rx_skew>> /\ lead' = lead - 1
               ELSE TcpWrite(Frame, lead)
       ELSE UNCHANGED <<due, staging, socket, toPeer, got_rtp_in_tick>>
    /\ UNCHANGED <<ready, tcp_room, rtp_in, ctl, peer>>

\* The tick: one packet with what is staged, padded to a frame; one frame of idle
\* fill to the peer if no RTP came since the last tick.
Tick ==
    /\ at = "tick" /\ at' = "select"
    /\ \/ /\ due > 0
          /\ due' = due - 1
          /\ LET take == Least(tcp_rx_len, Frame)
             IN  /\ tcp_rx_len' = tcp_rx_len - take
                 /\ played' = played + take
          /\ IF got_rtp_in_tick \/ IgnoreRtp
             THEN UNCHANGED <<socket, rx_skew>> /\ lead' = lead - 1
             ELSE TcpWrite(Frame, lead)
          /\ got_rtp_in_tick' = FALSE
       \/ /\ due = 0
          /\ UNCHANGED <<due, staging, socket, toPeer, got_rtp_in_tick>>
    /\ UNCHANGED <<ready, tcp_room, rtp_in, ctl, peer>>

Loop == Select \/ RtpRx \/ TcpRx \/ Control \/ Tick

-----------------------------------------------------------------------------
(* The clock, the caller and the peer (external). *)

Clock ==
    /\ at # "done" /\ due < MaxDue
    /\ due' = due + 1
    /\ UNCHANGED <<at, ready, tcp_room, socket, staging, got_rtp_in_tick, rtp_in, ctl, peer, toPeer>>

RtpArrives(n) ==
    /\ at # "done" /\ Len(rtp_in) < MaxQueue
    /\ rtp_in' = Append(rtp_in, n)
    /\ UNCHANGED <<at, ready, tcp_room, socket, staging, got_rtp_in_tick, due, ctl, peer, toPeer>>

CallerSends(m) ==
    /\ at # "done" /\ ctl = "none"
    /\ ctl' = m
    /\ UNCHANGED <<at, ready, tcp_room, socket, staging, got_rtp_in_tick, due, rtp_in, peer, toPeer>>

PeerWrites ==
    /\ at # "done" /\ tcp_open /\ ~peer_closed
    /\ \E n \in 1..(MaxSent - sent) : inq' = inq + n /\ sent' = sent + n
    /\ UNCHANGED <<at, ready, tcp_room, socket, staging, got_rtp_in_tick, due, rtp_in, ctl,
                   peer_closed, toPeer>>

PeerCloses ==
    /\ at # "done" /\ ~peer_closed
    /\ peer_closed' = TRUE
    /\ UNCHANGED <<at, ready, tcp_room, socket, staging, got_rtp_in_tick, due, rtp_in, ctl,
                   inq, sent, toPeer>>

Next ==
    \/ Loop \/ Clock \/ PeerWrites \/ PeerCloses
    \/ \E n \in Decoded : RtpArrives(n)
    \/ \E m \in {"bye", "other"} : CallerSends(m)

Spec == Init /\ [][Next]_vars

\* The thread runs, and time goes on.
FairSpec == Spec /\ WF_vars(Loop) /\ WF_vars(Clock)

-----------------------------------------------------------------------------
(* Properties. *)

\* Types; in particular the staging buffer never overflows, although the room for a
\* read is computed before select.
TypeOK ==
    /\ at \in {"select", "rtp", "tcp", "ctl", "tick", "done"}
    /\ ready \in SUBSET {"rtp", "tcp", "ctl"} /\ tcp_room \in 0..BufBytes
    /\ tcp_open \in BOOLEAN /\ broken \in BOOLEAN /\ peer_closed \in BOOLEAN
    /\ tcp_rx_len \in 0..BufBytes
    /\ got_rtp_in_tick \in BOOLEAN /\ due \in 0..MaxDue
    /\ rtp_in \in Seq(Decoded) /\ ctl \in {"none", "bye", "other"}
    /\ inq \in Nat /\ sent \in Nat /\ played \in Nat
    /\ lead \in Int /\ rx_skew \in 0..(Sample - 1)

\* No byte of the peer is lost or played twice on its way into RTP, however fast it
\* writes: what is not played is staged or still in the kernel (README.md:90, back-
\* pressure).
PeerAudioConserved == sent = inq + tcp_rx_len + played

\* The consumer's clock never stalls: never were fewer writes made to the peer than
\* ticks served, and RTP seen since the last tick puts it one ahead (README.md:86,
\* idle fill).
ConsumerClocked == ~IgnoreRtp => lead >= (IF got_rtp_in_tick THEN 1 ELSE 0)

\* Everything the peer wrote is played, even after it has closed its end, unless our
\* socket fails or the call ends: time and again nothing is left to be played (the
\* peer writes no more than MaxSent).
PeerAudioPlayed == []<>(played = sent \/ broken \/ at = "done")

\* A BYE ends the bridge, however much RTP and audio keeps arriving.
ByeEndsBridge == ctl = "bye" ~> at = "done"

\* What the peer gets never slips against its sample boundaries: what an overrun
\* drops are samples (README.md:94).
WholeSamples == rx_skew = 0
=============================================================================

-------------------------- MODULE MediaNegotiation --------------------------
(***************************************************************************)
(* How two ends of a call agree on a codec and find each other's audio.    *)
(*                                                                         *)
(* One end offers an SDP body, the other answers it, and then both send    *)
(* RTP.  An end is sip_interface, as caller (-D) or callee, or a phone.    *)
(* A body is the sequence of the lines sdp_parse looks at; an address is   *)
(* a host and a port of it; a packet is its payload type.                  *)
(***************************************************************************)
EXTENDS Naturals, Sequences, FiniteSets

CONSTANTS
    PhoneFormats,   \* the sets of speech payload types that phones offer
    PhonePT,        \* the dynamic payload type phones give CLEARMODE
    MaxStrays       \* bound: packets that belong to no one in the call

MptsSize == 32      \* mpts[]: payload types of an offer that sdp_parse remembers

\* With PhonePT and the one of a video stream an offer does not overrun mpts[].
ASSUME FormatsAssumption ==
    /\ PhoneFormats \subseteq SUBSET (0..95) /\ PhonePT \in 96..127
    /\ \A pts \in PhoneFormats : Cardinality(pts) + 2 <= MptsSize
ASSUME StraysAssumption == MaxStrays \in Nat

CODEC_PCMA == 8
CODEC_G722 == 9
CODEC_CLEARMODE == 256
CLEARMODE_OFFER_PT == 96

Ends == {"caller", "callee"}
Peer(e) == IF e = "caller" THEN "callee" ELSE "caller"
AudioPort == 1
VideoPort == 2
Nowhere == <<"none", 0>>

VARIABLES
    phones,         \* the ends that are phones
    allow_g722, clearmode,  \* the ends with -g, with -T
    mapped,         \* the ends behind a NAT: their packets come from an address of its
    phase,          \* how far the call is
    body,           \* the SDP on its way, then the answer
    offer,          \* the SDP that was offered
    codec, rtp_pt,  \* what an end encodes with, and the payload type it sends and takes
    remote,         \* remote_rtp_addr: where an end sends to
    heard,          \* the ends the last packet for which was played
    strays          \* packets from elsewhere so far

setup == <<phones, allow_g722, clearmode, mapped>>
media == <<codec, rtp_pt, remote>>
negotiationVars == <<setup, phase, body, offer, media, heard, strays>>

\* A NAT is on one side of a call between two interfaces: a phone does not learn addresses
\* from packets here.
NegotiationInit ==
    /\ phones \in SUBSET Ends /\ phones # Ends
    /\ allow_g722 \in SUBSET (Ends \ phones) /\ clearmode \in SUBSET (Ends \ phones)
    /\ mapped \in {{}, {"caller"}, {"callee"}}
    /\ \A e \in phones : Peer(e) \notin mapped
    /\ phase = "start" /\ body = <<>> /\ offer = <<>>
    /\ codec = [e \in Ends |-> CODEC_PCMA] /\ rtp_pt = [e \in Ends |-> CODEC_PCMA]
    /\ remote = [e \in Ends |-> Nowhere]
    /\ heard = {} /\ strays = 0

\* Where the packets of an end come from, which is also where it can be reached.
Source(e) == <<IF e \in mapped THEN "nat" ELSE e, AudioPort>>

-----------------------------------------------------------------------------
(* SDP. *)

C(host) == [line |-> "c", host |-> host]
M(kind, port, pts) == [line |-> "m", kind |-> kind, port |-> port, pts |-> pts]
Rtpmap(pt, name) == [line |-> "rtpmap", pt |-> pt, name |-> name]

\* The places of the lines of a kind in a body, the first and the last of some places.
Lines(b, line) == {i \in DOMAIN b : b[i].line = line}
AudioLines(b) == {i \in Lines(b, "m") : b[i].kind = "audio"}
ClearmodeMaps(b) == {i \in Lines(b, "rtpmap") : b[i].name = "CLEARMODE"}
FirstOf(I) == CHOOSE i \in I : \A j \in I : i <= j
LastOf(I) == CHOOSE i \in I : \A j \in I : j <= i

Mpts(b) == UNION {b[i].pts : i \in Lines(b, "m")}
DataPT(b) == b[LastOf(ClearmodeMaps(b))].pt

\* The payload types sdp_parse may settle on, with the codec of each; one at most.
Acceptable(b, g722, clear) ==
    IF clear THEN IF ClearmodeMaps(b) # {} /\ DataPT(b) \in Mpts(b)
                  THEN {<<CODEC_CLEARMODE, DataPT(b)>>} ELSE {}
    ELSE IF 9 \in Mpts(b) /\ (g722 \/ 8 \notin Mpts(b)) THEN {<<CODEC_G722, 9>>}
    ELSE IF 8 \in Mpts(b) THEN {<<CODEC_PCMA, 8>>} ELSE {}

\* sdp_parse: the choice, and the address of the last c= and the port of the last m=audio;
\* nothing if the body is not usable.
SdpParse(b, g722, clear) ==
    IF Lines(b, "c") = {} \/ AudioLines(b) = {} \/ b[LastOf(AudioLines(b))].port = 0
    THEN {}
    ELSE {[codec |-> c[1], rtp_pt |-> c[2],
           remote |-> <<b[LastOf(Lines(b, "c"))].host, b[LastOf(AudioLines(b))].port>>] :
             c \in Acceptable(b, g722, clear)}

\* build_sdp for an offer.
BuildOffer(e) ==
    <<C(e)>> \o
    (CASE e \in clearmode -> <<M("audio", AudioPort, {CLEARMODE_OFFER_PT}),
                               Rtpmap(CLEARMODE_OFFER_PT, "CLEARMODE")>>
       [] e \in allow_g722 \ clearmode -> <<M("audio", AudioPort, {9, 8})>>
       [] OTHER -> <<M("audio", AudioPort, {8})>>)

\* Mutation of BuildAnswer: CLEARMODE under the payload type of our own offers.
BuildAnswerOwnPT(e, c) ==
    LET pt == IF e \in clearmode THEN CLEARMODE_OFFER_PT ELSE c.codec
    IN  <<C(e), M("audio", AudioPort, {pt})>>
        \o (IF e \in clearmode THEN <<Rtpmap(pt, "CLEARMODE")>> ELSE <<>>)

\* build_sdp for the answer: the one codec, CLEARMODE under the payload type of the offer.
BuildAnswer(e, c) ==
    LET pt == IF e \in clearmode THEN c.rtp_pt ELSE c.codec
    IN  <<C(e), M("audio", AudioPort, {pt})>>
        \o (IF e \in clearmode THEN <<Rtpmap(pt, "CLEARMODE")>> ELSE <<>>)

-----------------------------------------------------------------------------
(* Setting up the call. *)

\* What phones offer: speech in some formats, data besides or alone, a video stream from
\* the same or another host, the audio switched off, and a body without any stream.
PhoneOffers(e) ==
    LET audio(pts) == M("audio", AudioPort, pts)
        video      == M("video", VideoPort, {96})
        data       == Rtpmap(PhonePT, "CLEARMODE")
    IN  {<<>>, <<C(e), M("audio", 0, {8})>>, <<C(e), audio({PhonePT}), data>>}
        \cup UNION {{<<C(e), audio(pts)>>,
                     <<C(e), audio(pts \cup {PhonePT}), data>>,
                     <<C(e), audio(pts), video, Rtpmap(96, "VP8")>>,
                     <<C(e), audio(pts), C("elsewhere"), video, Rtpmap(96, "VP8")>>} :
                    pts \in PhoneFormats}

\* A phone agrees to one of the formats it was offered.
PhoneChoices(b) ==
    {[codec |-> IF pt = PhonePT \/ pt = CLEARMODE_OFFER_PT THEN CODEC_CLEARMODE ELSE pt,
      rtp_pt |-> pt,
      remote |-> <<b[FirstOf(Lines(b, "c"))].host, b[FirstOf(AudioLines(b))].port>>] :
        pt \in b[FirstOf(AudioLines(b))].pts}

PhoneAnswer(e, c) ==
    <<C(e), M("audio", AudioPort, {c.rtp_pt})>>
    \o (IF c.codec = CODEC_CLEARMODE THEN <<Rtpmap(c.rtp_pt, "CLEARMODE")>> ELSE <<>>)

\* An end takes what it and the other one agreed on.
Settle(e, c) ==
    /\ codec' = [codec EXCEPT ![e] = c.codec]
    /\ rtp_pt' = [rtp_pt EXCEPT ![e] = c.rtp_pt]
    /\ remote' = [remote EXCEPT ![e] = c.remote]

\* The INVITE with its offer: send_invite or a phone's.
Invite ==
    /\ phase = "start" /\ phase' = "offered"
    /\ body' \in IF "caller" \in phones THEN PhoneOffers("caller") ELSE {BuildOffer("caller")}
    /\ offer' = body'
    /\ UNCHANGED <<setup, media, heard, strays>>

Parsed(e) == SdpParse(body, e \in allow_g722, e \in clearmode)

\* call_start: 415 if the body is not usable, else 200 with the answer.  A phone may refuse.
Accept ==
    /\ phase = "offered"
    /\ \/ /\ phase' = "refused"
          /\ "callee" \in phones \/ Parsed("callee") = {}
          /\ UNCHANGED <<body, media>>
       \/ \E c \in IF "callee" \in phones THEN PhoneChoices(body) ELSE Parsed("callee") :
             /\ Settle("callee", c)
             /\ body' = IF "callee" \in phones THEN PhoneAnswer("callee", c)
                                               ELSE BuildAnswer("callee", c)
             /\ phase' = "answered"
    /\ UNCHANGED <<setup, offer, heard, strays>>

\* The 200 reaches the caller: ACK, and BYE if the answer is not usable.
Confirm ==
    /\ phase = "answered"
    /\ \/ /\ "caller" \notin phones /\ Parsed("caller") = {}
          /\ phase' = "refused" /\ UNCHANGED media
       \/ \E c \in IF "caller" \in phones THEN PhoneChoices(body) ELSE Parsed("caller") :
             Settle("caller", c) /\ phase' = "talk"
    /\ UNCHANGED <<setup, body, offer, heard, strays>>

-----------------------------------------------------------------------------
(* RTP. *)

\* Mutation of Latch: the address of the SDP is kept.
LatchNever(e, source) == UNCHANGED remote

\* Symmetric RTP: sip_interface sends to where the last packet came from, whatever is in it.
Latch(e, source) ==
    remote' = IF e \in phones THEN remote ELSE [remote EXCEPT ![e] = source]

\* One packet of e, every 20 ms (rtp_send_payload, and io_loop of the other end): it
\* arrives if it was sent to where the other end is, and is played if it has the payload
\* type the other end takes.
Packet(e) ==
    /\ phase = "talk"
    /\ LET o == Peer(e) IN
       IF remote[e] = Source(o)
       THEN /\ Latch(o, Source(e))
            /\ heard' = IF rtp_pt[e] = rtp_pt[o] THEN heard \cup {o} ELSE heard \ {o}
       ELSE heard' = heard \ {o} /\ UNCHANGED remote
    /\ UNCHANGED <<setup, phase, body, offer, codec, rtp_pt, strays>>

\* A packet of an earlier call on the same port, delayed until now; a NAT lets none through.
Stray(e) ==
    /\ phase = "talk" /\ strays < MaxStrays /\ e \notin phones \cup mapped
    /\ strays' = strays + 1
    /\ Latch(e, <<"earlier", AudioPort>>)
    /\ UNCHANGED <<setup, phase, body, offer, codec, rtp_pt, heard>>

NegotiationNext == Invite \/ Accept \/ Confirm \/ \E e \in Ends : Packet(e) \/ Stray(e)

NegotiationSpec == NegotiationInit /\ [][NegotiationNext]_negotiationVars

\* Both ends send a packet every 20 ms, audio or silence (call.c:628).
NegotiationFairSpec ==
    /\ NegotiationSpec
    /\ WF_negotiationVars(Invite \/ Accept \/ Confirm)
    /\ \A e \in Ends : WF_negotiationVars(Packet(e))

-----------------------------------------------------------------------------
(* Properties. *)

\* The formats of the audio stream of a body.
Formats(b) == UNION {b[i].pts : i \in AudioLines(b)}

\* Both ends encode with the same codec under the same payload type, one that the offer
\* lists for the audio, whichever end has -g or -T and whatever else the offer holds:
\* each end parses the other's body by itself, and the codec and the payload type are
\* chosen apart (call.c:134, build_sdp).
SameFormat ==
    phase = "talk" =>
        /\ codec["caller"] = codec["callee"] /\ rtp_pt["caller"] = rtp_pt["callee"]
        /\ rtp_pt["caller"] \in Formats(offer) \cap Formats(body)
        /\ codec["caller"] = CODEC_CLEARMODE \/ codec["caller"] = rtp_pt["caller"]

\* The audio never stays one-way.  The address of the SDP may be that of a video server or
\* hidden by a NAT, and stray packets divert what an end sends, but as long as one end
\* reaches the other both come to hear each other and go on to (call.c:549).  Stray packets
\* at both ends at once are the exception: then neither has anything to latch to again.
Diverted == \A e \in Ends : remote[e] # Source(Peer(e))
AudioSettles == (phase = "talk") ~> ([](heard = Ends) \/ []Diverted)
=============================================================================

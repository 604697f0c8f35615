---------------------------- MODULE MediaProofs ----------------------------
(***************************************************************************)
(* The media of a call: the codec it is set up with (MediaNegotiation) and *)
(* the bridge that then carries the audio (AudioBridge).                   *)
(*                                                                         *)
(* Both ends of a call encode the same way, whichever ends have -g or -T   *)
(* and whatever a phone offers besides.  sdp_parse runs once at each end,  *)
(* on different bodies; what ties the two runs together is the shape of    *)
(* the answer: one format, and an rtpmap line just when that is data.      *)
(*                                                                         *)
(* The bridge keeps for every frame, buffer and packet size: the staging   *)
(* buffer never overflows, no byte of the peer is lost on its way into     *)
(* RTP, and the peer gets a write for every tick.                          *)
(***************************************************************************)
EXTENDS MediaNegotiation, AudioBridge, SequenceTheorems, TLAPS

-----------------------------------------------------------------------------
(* The negotiation. *)

\* The answer with one format: speech under its own number, or data under a dynamic one.
Speech(e, pt) == <<C(e), M("audio", AudioPort, {pt})>>
DataOnly(e, pt) == <<C(e), M("audio", AudioPort, {pt}), Rtpmap(pt, "CLEARMODE")>>
SpeechPTs == {CODEC_PCMA, CODEC_G722}
DataPTs == {CLEARMODE_OFFER_PT, PhonePT}

\* What an end that takes codec c under payload type pt has answered.
Answers(b, c, pt) ==
    \E e \in Ends : \/ b = Speech(e, pt) /\ c = pt /\ pt \in SpeechPTs
                    \/ b = DataOnly(e, pt) /\ c = CODEC_CLEARMODE /\ pt \in DataPTs

\* An offer in which what sdp_parse may choose is a format of the audio.
OfferOK(b) ==
    /\ SpeechPTs \cap Mpts(b) \subseteq Formats(b)
    /\ \/ ClearmodeMaps(b) = {}
       \/ ClearmodeMaps(b) = {3} /\ b[3].pt \in DataPTs \cap Formats(b)

\* An offer of ours, of which a phone takes a format.
OursOK(b) ==
    /\ b[FirstOf(AudioLines(b))].pts \subseteq Formats(b)
    /\ b[FirstOf(AudioLines(b))].pts \subseteq SpeechPTs \cup DataPTs

EndsAgree == codec["caller"] = codec["callee"] /\ rtp_pt["caller"] = rtp_pt["callee"]

FormatInv ==
    /\ phones # Ends /\ phones \subseteq Ends
    /\ DOMAIN codec = Ends /\ DOMAIN rtp_pt = Ends
    /\ phase = "offered" =>
           /\ body = offer /\ OfferOK(body)
           /\ "caller" \notin phones => OursOK(body)
    /\ phase \in {"answered", "talk"} =>
           Answers(body, codec["callee"], rtp_pt["callee"]) /\ rtp_pt["callee"] \in Formats(offer)
    /\ phase = "talk" => EndsAgree

-----------------------------------------------------------------------------
(* Bodies, line by line. *)

\* Lines put together, as build_sdp appends them (call.c:287-324).
LEMMA OneAndOne ==
    ASSUME NEW x, NEW y
    PROVE  <<x>> \o <<y>> = <<x, y>>
<1>. DEFINE S == {x, y}
            t == <<x>> \o <<y>>
            u == <<x, y>>
<1>1. <<x>> \in Seq(S) /\ <<y>> \in Seq(S) /\ u \in Seq(S)
  OBVIOUS
<1>2. t \in Seq(S) /\ Len(t) = 2 /\ t[1] = x /\ t[2] = y
  <2>. HIDE DEF S
  <2>. QED BY <1>1, ConcatProperties
<1>3. Len(u) = 2 /\ u[1] = x /\ u[2] = y
  OBVIOUS
<1>. HIDE DEF S, t, u
<1>4. \A i \in 1..Len(t) : t[i] = u[i]
  BY <1>2, <1>3
<1>5. t = u
  BY <1>1, <1>2, <1>3, <1>4, SeqEqual
<1>. QED BY <1>5 DEF t, u

LEMMA OneAndTwo ==
    ASSUME NEW x, NEW y, NEW z
    PROVE  <<x>> \o <<y, z>> = <<x, y, z>>
<1>. DEFINE S == {x, y, z}
            t == <<x>> \o <<y, z>>
            u == <<x, y, z>>
<1>1. <<x>> \in Seq(S) /\ <<y, z>> \in Seq(S) /\ u \in Seq(S)
  OBVIOUS
<1>2. t \in Seq(S) /\ Len(t) = 3 /\ t[1] = x /\ t[2] = y /\ t[3] = z
  <2>. HIDE DEF S
  <2>. QED BY <1>1, ConcatProperties
<1>3. Len(u) = 3 /\ u[1] = x /\ u[2] = y /\ u[3] = z
  OBVIOUS
<1>. HIDE DEF S, t, u
<1>4. \A i \in 1..Len(t) : t[i] = u[i]
  BY <1>2, <1>3
<1>5. t = u
  BY <1>1, <1>2, <1>3, <1>4, SeqEqual
<1>. QED BY <1>5 DEF t, u

LEMMA TwoAndOne ==
    ASSUME NEW x, NEW y, NEW z
    PROVE  <<x, y>> \o <<z>> = <<x, y, z>>
<1>. DEFINE S == {x, y, z}
            t == <<x, y>> \o <<z>>
            u == <<x, y, z>>
<1>1. <<x, y>> \in Seq(S) /\ <<z>> \in Seq(S) /\ u \in Seq(S)
  OBVIOUS
<1>2. t \in Seq(S) /\ Len(t) = 3 /\ t[1] = x /\ t[2] = y /\ t[3] = z
  <2>. HIDE DEF S
  <2>. QED BY <1>1, ConcatProperties
<1>3. Len(u) = 3 /\ u[1] = x /\ u[2] = y /\ u[3] = z
  OBVIOUS
<1>. HIDE DEF S, t, u
<1>4. \A i \in 1..Len(t) : t[i] = u[i]
  BY <1>2, <1>3
<1>5. t = u
  BY <1>1, <1>2, <1>3, <1>4, SeqEqual
<1>. QED BY <1>5 DEF t, u

LEMMA TwoAndNone ==
    ASSUME NEW x, NEW y
    PROVE  <<x, y>> \o <<>> = <<x, y>>
<1>1. <<x, y>> \in Seq({x, y})
  OBVIOUS
<1>. QED BY <1>1, ConcatEmptySeq

\* The fields of a line.
LEMMA CFields == \A host : C(host).line = "c"
BY DEF C

LEMMA MFields ==
    /\ \A kind, port, pts : M(kind, port, pts).line = "m"
    /\ \A kind, port, pts : M(kind, port, pts).kind = kind
    /\ \A kind, port, pts : M(kind, port, pts).port = port
    /\ \A kind, port, pts : M(kind, port, pts).pts = pts
BY DEF M

LEMMA RtpmapFields ==
    /\ \A pt, name : Rtpmap(pt, name).line = "rtpmap"
    /\ \A pt, name : Rtpmap(pt, name).pt = pt
    /\ \A pt, name : Rtpmap(pt, name).name = name
BY DEF Rtpmap

\* The only place there is, is the first and the last.
LEMMA OnePlace ==
    ASSUME NEW i \in Nat
    PROVE  FirstOf({i}) = i /\ LastOf({i}) = i
BY DEF FirstOf, LastOf

\* A body with one audio line, as sdp_parse sees it (call.c:94-128).
LEMMA TwoLines ==
    ASSUME NEW e, NEW port, NEW pts, NEW b, b = <<C(e), M("audio", port, pts)>>
    PROVE  /\ Lines(b, "c") = {1} /\ AudioLines(b) = {2} /\ ClearmodeMaps(b) = {}
           /\ Mpts(b) = pts /\ Formats(b) = pts /\ b[2].port = port /\ b[2].pts = pts
<1>1. DOMAIN b = {1, 2} /\ b[1] = C(e) /\ b[2] = M("audio", port, pts)
  OBVIOUS
<1>2. b[1].line = "c" /\ b[2].line = "m" /\ b[2].kind = "audio"
      /\ b[2].pts = pts /\ b[2].port = port
  BY <1>1 DEF C, M
<1>3. Lines(b, "c") = {1} /\ Lines(b, "m") = {2} /\ Lines(b, "rtpmap") = {}
  BY <1>1, <1>2 DEF Lines
<1>4. AudioLines(b) = {2} /\ ClearmodeMaps(b) = {}
  BY <1>2, <1>3 DEF AudioLines, ClearmodeMaps
<1>. QED BY <1>2, <1>3, <1>4 DEF Mpts, Formats

\* The same with a dynamic payload type for data.
LEMMA ThreeLines ==
    ASSUME NEW e, NEW port, NEW pts, NEW pt, NEW b,
           b = <<C(e), M("audio", port, pts), Rtpmap(pt, "CLEARMODE")>>
    PROVE  /\ Lines(b, "c") = {1} /\ AudioLines(b) = {2} /\ ClearmodeMaps(b) = {3}
           /\ Mpts(b) = pts /\ Formats(b) = pts /\ b[2].port = port /\ b[2].pts = pts
           /\ 3 \in DOMAIN b /\ b[3].pt = pt
<1>1. /\ DOMAIN b = {1, 2, 3} /\ b[1] = C(e) /\ b[2] = M("audio", port, pts)
      /\ b[3] = Rtpmap(pt, "CLEARMODE")
  OBVIOUS
<1>2. /\ b[1].line = "c" /\ b[2].line = "m" /\ b[2].kind = "audio"
      /\ b[2].pts = pts /\ b[2].port = port
      /\ b[3].line = "rtpmap" /\ b[3].name = "CLEARMODE" /\ b[3].pt = pt
  BY <1>1 DEF C, M, Rtpmap
<1>3. Lines(b, "c") = {1} /\ Lines(b, "m") = {2} /\ Lines(b, "rtpmap") = {3}
  BY <1>1, <1>2 DEF Lines
<1>4. AudioLines(b) = {2} /\ ClearmodeMaps(b) = {3}
  BY <1>2, <1>3 DEF AudioLines, ClearmodeMaps
<1>. QED BY <1>1, <1>2, <1>3, <1>4 DEF Mpts, Formats

\* The lines of a body of four lines.
LEMMA FourPlaces ==
    ASSUME NEW x1, NEW x2, NEW x3, NEW x4, NEW b, b = <<x1, x2, x3, x4>>
    PROVE  DOMAIN b = {1, 2, 3, 4} /\ b[1] = x1 /\ b[2] = x2 /\ b[3] = x3 /\ b[4] = x4
OBVIOUS

\* With a video stream, whose payload types sdp_parse does not tell from those of the audio.
LEMMA VideoLines ==
    ASSUME NEW e, NEW pts, NEW b,
           b = <<C(e), M("audio", AudioPort, pts), M("video", VideoPort, {96}),
                 Rtpmap(96, "VP8")>>
    PROVE  ClearmodeMaps(b) = {} /\ Mpts(b) = pts \cup {96} /\ Formats(b) = pts
<1>1. /\ DOMAIN b = {1, 2, 3, 4} /\ b[1] = C(e) /\ b[2] = M("audio", AudioPort, pts)
      /\ b[3] = M("video", VideoPort, {96}) /\ b[4] = Rtpmap(96, "VP8")
  BY FourPlaces
<1>2. /\ b[1].line = "c" /\ b[2].line = "m" /\ b[3].line = "m" /\ b[4].line = "rtpmap"
  BY <1>1, CFields, MFields, RtpmapFields
<1>3. b[2].kind = "audio" /\ b[3].kind = "video" /\ b[4].name = "VP8"
  BY <1>1, CFields, MFields, RtpmapFields
<1>4. b[2].pts = pts /\ b[3].pts = {96}
  BY <1>1, CFields, MFields, RtpmapFields
<1>5. Lines(b, "m") = {2, 3} /\ Lines(b, "rtpmap") = {4}
  BY <1>1, <1>2 DEF Lines
<1>6. AudioLines(b) = {2} /\ ClearmodeMaps(b) = {}
  BY <1>3, <1>5 DEF AudioLines, ClearmodeMaps
<1>7. Formats(b) = pts /\ Mpts(b) = b[2].pts \cup b[3].pts
  BY <1>4, <1>5, <1>6 DEF Formats, Mpts
<1>. QED BY <1>4, <1>6, <1>7

\* The lines of a body of five lines.
LEMMA FivePlaces ==
    ASSUME NEW x1, NEW x2, NEW x3, NEW x4, NEW x5, NEW b, b = <<x1, x2, x3, x4, x5>>
    PROVE  /\ DOMAIN b = {1, 2, 3, 4, 5} /\ b[1] = x1 /\ b[2] = x2 /\ b[3] = x3
           /\ b[4] = x4 /\ b[5] = x5
<1>1. DOMAIN b = 1..5
  OBVIOUS
<1>. QED BY <1>1

\* The same from another host.
LEMMA VideoServerLines ==
    ASSUME NEW e, NEW pts, NEW b,
           b = <<C(e), M("audio", AudioPort, pts), C("elsewhere"),
                 M("video", VideoPort, {96}), Rtpmap(96, "VP8")>>
    PROVE  ClearmodeMaps(b) = {} /\ Mpts(b) = pts \cup {96} /\ Formats(b) = pts
<1>1. /\ DOMAIN b = {1, 2, 3, 4, 5} /\ b[1] = C(e) /\ b[2] = M("audio", AudioPort, pts)
      /\ b[3] = C("elsewhere") /\ b[4] = M("video", VideoPort, {96})
      /\ b[5] = Rtpmap(96, "VP8")
  BY FivePlaces
<1>2. /\ b[1].line = "c" /\ b[2].line = "m" /\ b[3].line = "c" /\ b[4].line = "m"
      /\ b[5].line = "rtpmap"
  BY <1>1, CFields, MFields, RtpmapFields
<1>3. b[2].kind = "audio" /\ b[4].kind = "video" /\ b[5].name = "VP8"
  BY <1>1, MFields, RtpmapFields
<1>4. b[2].pts = pts /\ b[4].pts = {96}
  BY <1>1, MFields
<1>5. Lines(b, "m") = {2, 4} /\ Lines(b, "rtpmap") = {5}
  BY <1>1, <1>2 DEF Lines
<1>6. AudioLines(b) = {2} /\ ClearmodeMaps(b) = {}
  BY <1>3, <1>5 DEF AudioLines, ClearmodeMaps
<1>7. Formats(b) = pts /\ Mpts(b) = b[2].pts \cup b[4].pts
  BY <1>4, <1>5, <1>6 DEF Formats, Mpts
<1>. QED BY <1>4, <1>6, <1>7

\* What a phone offers is fit to be parsed: neither video nor a missing format misleads.
LEMMA PhoneOffersOK ==
    ASSUME NEW e, NEW b \in PhoneOffers(e)
    PROVE  OfferOK(b)
<1>1. \/ b = <<>>
      \/ \E port, pts : b = <<C(e), M("audio", port, pts)>>
      \/ \E pts : /\ b = <<C(e), M("audio", AudioPort, pts), Rtpmap(PhonePT, "CLEARMODE")>>
                  /\ PhonePT \in pts
      \/ \E pts : \/ b = <<C(e), M("audio", AudioPort, pts), M("video", VideoPort, {96}),
                           Rtpmap(96, "VP8")>>
                  \/ b = <<C(e), M("audio", AudioPort, pts), C("elsewhere"),
                           M("video", VideoPort, {96}), Rtpmap(96, "VP8")>>
  <2>. DEFINE audio(pts) == M("audio", AudioPort, pts)
              video      == M("video", VideoPort, {96})
              data       == Rtpmap(PhonePT, "CLEARMODE")
  <2>1. \/ b \in {<<>>, <<C(e), M("audio", 0, {8})>>, <<C(e), audio({PhonePT}), data>>}
        \/ \E pts \in PhoneFormats :
              b \in {<<C(e), audio(pts)>>,
                    <<C(e), audio(pts \cup {PhonePT}), data>>,
                    <<C(e), audio(pts), video, Rtpmap(96, "VP8")>>,
                    <<C(e), audio(pts), C("elsewhere"), video, Rtpmap(96, "VP8")>>}
    BY DEF PhoneOffers
  <2>2. CASE b \in {<<>>, <<C(e), M("audio", 0, {8})>>, <<C(e), audio({PhonePT}), data>>}
    BY <2>2, Zenon
  <2>3. ASSUME NEW pts \in PhoneFormats,
               \/ b = <<C(e), audio(pts)>>
               \/ b = <<C(e), audio(pts), video, Rtpmap(96, "VP8")>>
               \/ b = <<C(e), audio(pts), C("elsewhere"), video, Rtpmap(96, "VP8")>>
        PROVE  \/ \E port, p : b = <<C(e), M("audio", port, p)>>
               \/ \E p : \/ b = <<C(e), M("audio", AudioPort, p), M("video", VideoPort, {96}),
                                  Rtpmap(96, "VP8")>>
                         \/ b = <<C(e), M("audio", AudioPort, p), C("elsewhere"),
                                  M("video", VideoPort, {96}), Rtpmap(96, "VP8")>>
    BY <2>3, Zenon
  <2>4. ASSUME NEW pts \in PhoneFormats, b = <<C(e), audio(pts \cup {PhonePT}), data>>
        PROVE  \E p : /\ b = <<C(e), M("audio", AudioPort, p), Rtpmap(PhonePT, "CLEARMODE")>>
                      /\ PhonePT \in p
    <3>1. PhonePT \in pts \cup {PhonePT}
      OBVIOUS
    <3>. QED BY <2>4, <3>1, Zenon
  <2>. QED BY <2>1, <2>2, <2>3, <2>4, Zenon
<1>2. CASE b = <<>>
  <2>1. Lines(b, "m") = {} /\ Lines(b, "rtpmap") = {}
    BY <1>2 DEF Lines
  <2>. QED BY <2>1 DEF OfferOK, ClearmodeMaps, Mpts
<1>3. CASE \E port, pts : b = <<C(e), M("audio", port, pts)>>
  <2>1. ClearmodeMaps(b) = {} /\ Mpts(b) = Formats(b)
    BY <1>3, TwoLines
  <2>. QED BY <2>1 DEF OfferOK
<1>4. CASE \E pts : /\ b = <<C(e), M("audio", AudioPort, pts), Rtpmap(PhonePT, "CLEARMODE")>>
                    /\ PhonePT \in pts
  <2>1. /\ ClearmodeMaps(b) = {3} /\ 3 \in DOMAIN b /\ Mpts(b) = Formats(b)
        /\ b[3].pt = PhonePT /\ PhonePT \in Formats(b)
    BY <1>4, ThreeLines
  <2>. QED BY <2>1 DEF OfferOK, DataPTs
<1>5. CASE \E pts : \/ b = <<C(e), M("audio", AudioPort, pts), M("video", VideoPort, {96}),
                             Rtpmap(96, "VP8")>>
                    \/ b = <<C(e), M("audio", AudioPort, pts), C("elsewhere"),
                             M("video", VideoPort, {96}), Rtpmap(96, "VP8")>>
  <2>1. ClearmodeMaps(b) = {} /\ Mpts(b) = Formats(b) \cup {96}
    <3>1. CASE \E pts : b = <<C(e), M("audio", AudioPort, pts), M("video", VideoPort, {96}),
                              Rtpmap(96, "VP8")>>
      BY <3>1, VideoLines
    <3>2. CASE \E pts : b = <<C(e), M("audio", AudioPort, pts), C("elsewhere"),
                              M("video", VideoPort, {96}), Rtpmap(96, "VP8")>>
      BY <3>2, VideoServerLines
    <3>. QED BY <1>5, <3>1, <3>2
  <2>. QED BY <2>1 DEF OfferOK, SpeechPTs, CODEC_PCMA, CODEC_G722
<1>. QED BY <1>1, <1>2, <1>3, <1>4, <1>5

\* What we offer is fit to be parsed, and to be chosen from (call.c:287-317).
LEMMA OurOffersOK ==
    ASSUME NEW e, NEW b, b = BuildOffer(e)
    PROVE  OfferOK(b) /\ OursOK(b)
<1>1. CASE e \in clearmode
  <2>1. b = <<C(e), M("audio", AudioPort, {CLEARMODE_OFFER_PT}),
              Rtpmap(CLEARMODE_OFFER_PT, "CLEARMODE")>>
    <3>1. b = <<C(e)>> \o <<M("audio", AudioPort, {CLEARMODE_OFFER_PT}),
                           Rtpmap(CLEARMODE_OFFER_PT, "CLEARMODE")>>
      BY <1>1, Zenon DEF BuildOffer
    <3>. QED BY <3>1, OneAndTwo
  <2>2. /\ AudioLines(b) = {2} /\ ClearmodeMaps(b) = {3} /\ 3 \in DOMAIN b
        /\ Mpts(b) = {CLEARMODE_OFFER_PT} /\ Formats(b) = {CLEARMODE_OFFER_PT}
        /\ b[2].pts = {CLEARMODE_OFFER_PT} /\ b[3].pt = CLEARMODE_OFFER_PT
    BY <2>1, ThreeLines
  <2>. QED BY <2>2, OnePlace DEF OfferOK, OursOK, DataPTs
<1>2. CASE e \notin clearmode
  <2>1. PICK pts \in {{9, 8}, {8}} : b = <<C(e), M("audio", AudioPort, pts)>>
    <3>1. b = <<C(e)>> \o <<M("audio", AudioPort, {9, 8})>>
          \/ b = <<C(e)>> \o <<M("audio", AudioPort, {8})>>
      BY <1>2 DEF BuildOffer
    <3>. QED BY <3>1, OneAndOne
  <2>2. AudioLines(b) = {2} /\ ClearmodeMaps(b) = {} /\ Mpts(b) = pts /\ Formats(b) = pts
        /\ b[2].pts = pts
    BY <2>1, TwoLines
  <2>. QED BY <2>2, OnePlace DEF OfferOK, OursOK, SpeechPTs, CODEC_PCMA, CODEC_G722
<1>. QED BY <1>1, <1>2

-----------------------------------------------------------------------------
(* The two choices. *)

\* What an end takes from an offer is a format of its audio: speech without -T, under the
\* number of the codec, data with it (call.c:134-179).
LEMMA TakenFromOffer ==
    ASSUME NEW b, OfferOK(b), NEW g722, NEW clear \in BOOLEAN, NEW c \in SdpParse(b, g722, clear)
    PROVE  /\ c.rtp_pt \in Formats(b)
           /\ clear => c.codec = CODEC_CLEARMODE /\ c.rtp_pt \in DataPTs
           /\ ~clear => c.codec = c.rtp_pt /\ c.rtp_pt \in SpeechPTs
<1>1. PICK a \in Acceptable(b, g722, clear) : c.codec = a[1] /\ c.rtp_pt = a[2]
  BY DEF SdpParse
<1>2. CASE clear
  <2>1. ClearmodeMaps(b) # {} /\ a = <<CODEC_CLEARMODE, DataPT(b)>>
    BY <1>1, <1>2 DEF Acceptable
  <2>2. DataPT(b) = b[3].pt
    BY <2>1, OnePlace DEF OfferOK, DataPT
  <2>. QED BY <1>1, <1>2, <2>1, <2>2 DEF OfferOK
<1>3. CASE ~clear
  <2>1. a \in {<<9, 9>>, <<8, 8>>} /\ a[1] \in Mpts(b)
    BY <1>1, <1>3 DEF Acceptable, CODEC_PCMA, CODEC_G722
  <2>. QED BY <1>1, <1>3, <2>1 DEF OfferOK, SpeechPTs, CODEC_PCMA, CODEC_G722
<1>. QED BY <1>2, <1>3

\* The answer of ours has that one format (call.c:287-324).
LEMMA OurAnswer ==
    ASSUME NEW e \in Ends, NEW c,
           e \in clearmode => c.codec = CODEC_CLEARMODE /\ c.rtp_pt \in DataPTs,
           e \notin clearmode => c.codec = c.rtp_pt /\ c.rtp_pt \in SpeechPTs
    PROVE  Answers(BuildAnswer(e, c), c.codec, c.rtp_pt)
<1>1. CASE e \in clearmode
  <2>1. BuildAnswer(e, c) = <<C(e), M("audio", AudioPort, {c.rtp_pt})>>
                            \o <<Rtpmap(c.rtp_pt, "CLEARMODE")>>
    BY <1>1 DEF BuildAnswer
  <2>2. BuildAnswer(e, c) = DataOnly(e, c.rtp_pt)
    BY <2>1, TwoAndOne DEF DataOnly
  <2>. QED BY <1>1, <2>2 DEF Answers
<1>2. CASE e \notin clearmode
  <2>1. BuildAnswer(e, c) = <<C(e), M("audio", AudioPort, {c.rtp_pt})>> \o <<>>
    BY <1>2 DEF BuildAnswer
  <2>2. BuildAnswer(e, c) = Speech(e, c.rtp_pt)
    BY <2>1, TwoAndNone DEF Speech
  <2>. QED BY <1>2, <2>2 DEF Answers
<1>. QED BY <1>1, <1>2

\* A phone takes a format of our offer, and its answer has the same shape.
LEMMA TakenByPhone ==
    ASSUME NEW b, OursOK(b), NEW c \in PhoneChoices(b), NEW e \in Ends
    PROVE  c.rtp_pt \in Formats(b) /\ Answers(PhoneAnswer(e, c), c.codec, c.rtp_pt)
<1>1. c.rtp_pt \in Formats(b) /\ c.rtp_pt \in SpeechPTs \cup DataPTs
  BY DEF PhoneChoices, OursOK
<1>2. c.codec = IF c.rtp_pt \in DataPTs THEN CODEC_CLEARMODE ELSE c.rtp_pt
  BY DEF PhoneChoices, DataPTs
<1>3. CASE c.rtp_pt \in DataPTs
  <2>1. PhoneAnswer(e, c) = <<C(e), M("audio", AudioPort, {c.rtp_pt})>>
                            \o <<Rtpmap(c.rtp_pt, "CLEARMODE")>>
    BY <1>2, <1>3 DEF PhoneAnswer
  <2>2. PhoneAnswer(e, c) = DataOnly(e, c.rtp_pt)
    BY <2>1, TwoAndOne DEF DataOnly
  <2>. QED BY <1>1, <1>2, <1>3, <2>2 DEF Answers
<1>4. CASE c.rtp_pt \in SpeechPTs \ DataPTs
  <2>1. c.codec # CODEC_CLEARMODE /\ c.codec = c.rtp_pt
    BY <1>2, <1>4 DEF SpeechPTs, CODEC_PCMA, CODEC_G722, CODEC_CLEARMODE
  <2>2. PhoneAnswer(e, c) = <<C(e), M("audio", AudioPort, {c.rtp_pt})>> \o <<>>
    BY <2>1 DEF PhoneAnswer
  <2>3. PhoneAnswer(e, c) = Speech(e, c.rtp_pt)
    BY <2>2, TwoAndNone DEF Speech
  <2>. QED BY <1>1, <1>4, <2>1, <2>3 DEF Answers
<1>. QED BY <1>1, <1>3, <1>4

\* An answer leaves its reader one choice at most: that of the end that wrote it.
LEMMA OneChoice ==
    ASSUME NEW b, NEW k, NEW pt, Answers(b, k, pt), NEW c,
           c \in PhoneChoices(b) \/ \E g722, clear \in BOOLEAN : c \in SdpParse(b, g722, clear)
    PROVE  c.codec = k /\ c.rtp_pt = pt
<1>1. CASE \E e : b = Speech(e, pt) /\ k = pt /\ pt \in SpeechPTs
  <2>1. /\ AudioLines(b) = {2} /\ ClearmodeMaps(b) = {}
        /\ Mpts(b) = {pt} /\ b[2].pts = {pt}
    BY <1>1, TwoLines DEF Speech
  <2>2. CASE c \in PhoneChoices(b)
    <3>1. c.rtp_pt = pt
      BY <2>1, <2>2, OnePlace DEF PhoneChoices
    <3>2. c.codec = pt
      BY <1>1, <2>2, <3>1, FormatsAssumption DEF PhoneChoices, SpeechPTs, CODEC_PCMA, CODEC_G722,
                              CLEARMODE_OFFER_PT
    <3>. QED BY <1>1, <3>1, <3>2
  <2>3. CASE \E g722, clear \in BOOLEAN : c \in SdpParse(b, g722, clear)
    <3>1. PICK g722, clear \in BOOLEAN :
                 \E a \in Acceptable(b, g722, clear) : c.codec = a[1] /\ c.rtp_pt = a[2]
      BY <2>3 DEF SdpParse
    <3>2. Acceptable(b, g722, clear) \subseteq {<<pt, pt>>}
      BY <1>1, <2>1 DEF Acceptable, SpeechPTs, CODEC_PCMA, CODEC_G722
    <3>. QED BY <1>1, <3>1, <3>2
  <2>. QED BY <2>2, <2>3
<1>2. CASE \E e : b = DataOnly(e, pt) /\ k = CODEC_CLEARMODE /\ pt \in DataPTs
  <2>1. /\ AudioLines(b) = {2} /\ ClearmodeMaps(b) = {3} /\ b[3].pt = pt
        /\ Mpts(b) = {pt} /\ b[2].pts = {pt}
    BY <1>2, ThreeLines DEF DataOnly
  <2>2. CASE c \in PhoneChoices(b)
    <3>1. c.rtp_pt = pt
      BY <2>1, <2>2, OnePlace DEF PhoneChoices
    <3>2. c.codec = CODEC_CLEARMODE
      BY <1>2, <2>2, <3>1 DEF PhoneChoices, DataPTs
    <3>. QED BY <1>2, <3>1, <3>2
  <2>3. CASE \E g722, clear \in BOOLEAN : c \in SdpParse(b, g722, clear)
    <3>1. PICK g722, clear \in BOOLEAN :
                 \E a \in Acceptable(b, g722, clear) : c.codec = a[1] /\ c.rtp_pt = a[2]
      BY <2>3 DEF SdpParse
    <3>2. DataPT(b) = pt
      BY <2>1, OnePlace DEF DataPT
    <3>3. Acceptable(b, g722, clear) \subseteq {<<CODEC_CLEARMODE, pt>>}
      BY <1>2, <2>1, <3>2, FormatsAssumption DEF Acceptable, DataPTs, CLEARMODE_OFFER_PT
    <3>. QED BY <1>2, <3>1, <3>3
  <2>. QED BY <2>2, <2>3
<1>. QED BY <1>1, <1>2 DEF Answers

-----------------------------------------------------------------------------
(* The steps. *)

LEMMA FormatInit == NegotiationInit => FormatInv
BY DEF NegotiationInit, FormatInv

LEMMA FormatInvite == FormatInv /\ Invite => FormatInv'
<1>. SUFFICES ASSUME FormatInv, Invite PROVE FormatInv'
  OBVIOUS
<1>1. phase' = "offered" /\ body' = offer'
  BY DEF Invite
<1>2. OfferOK(body')
  <2>1. CASE "caller" \in phones
    BY <2>1, PhoneOffersOK DEF Invite
  <2>2. CASE "caller" \notin phones
    BY <2>2, OurOffersOK DEF Invite
  <2>. QED BY <2>1, <2>2
<1>3. "caller" \notin phones => OursOK(body')
  BY OurOffersOK DEF Invite
<1>4. UNCHANGED <<phones, codec, rtp_pt>>
  BY DEF Invite, setup, media
<1>. QED BY <1>1, <1>2, <1>3, <1>4 DEF FormatInv

LEMMA FormatAccept == FormatInv /\ Accept => FormatInv'
<1>. SUFFICES ASSUME FormatInv, Accept PROVE FormatInv'
  OBVIOUS
<1>1. /\ phase = "offered" /\ UNCHANGED <<phones, clearmode, offer>>
      /\ body = offer /\ OfferOK(body) /\ ("caller" \notin phones => OursOK(body))
  BY DEF Accept, FormatInv, setup
<1>2. CASE phase' = "refused" /\ UNCHANGED <<body, media>>
  BY <1>1, <1>2 DEF FormatInv, media
<1>3. ASSUME NEW c \in IF "callee" \in phones THEN PhoneChoices(body) ELSE Parsed("callee"),
             Settle("callee", c), phase' = "answered",
             body' = IF "callee" \in phones THEN PhoneAnswer("callee", c)
                                            ELSE BuildAnswer("callee", c)
      PROVE  FormatInv'
  <2>1. codec'["callee"] = c.codec /\ rtp_pt'["callee"] = c.rtp_pt
    BY <1>3 DEF Settle, FormatInv, Ends
  <2>2. DOMAIN codec' = Ends /\ DOMAIN rtp_pt' = Ends
    BY <1>3 DEF Settle, FormatInv
  <2>3. c.rtp_pt \in Formats(offer) /\ Answers(body', c.codec, c.rtp_pt)
    <3>1. CASE "callee" \in phones
      <4>1. "caller" \notin phones
        BY <3>1 DEF FormatInv, Ends
      <4>. QED BY <1>1, <1>3, <3>1, <4>1, TakenByPhone DEF Ends
    <3>2. CASE "callee" \notin phones
      <4>1. c \in SdpParse(body, "callee" \in allow_g722, "callee" \in clearmode)
        BY <1>3, <3>2 DEF Parsed
      <4>2. /\ c.rtp_pt \in Formats(body)
            /\ "callee" \in clearmode => c.codec = CODEC_CLEARMODE /\ c.rtp_pt \in DataPTs
            /\ "callee" \notin clearmode => c.codec = c.rtp_pt /\ c.rtp_pt \in SpeechPTs
        <5>. DEFINE clear == "callee" \in clearmode
        <5>1. clear \in BOOLEAN
          OBVIOUS
        <5>. QED BY <1>1, <4>1, <5>1, TakenFromOffer, Zenon
      <4>3. Answers(BuildAnswer("callee", c), c.codec, c.rtp_pt)
        BY <4>2, OurAnswer DEF Ends
      <4>. QED BY <1>1, <1>3, <3>2, <4>2, <4>3
    <3>. QED BY <3>1, <3>2
  <2>. QED BY <1>1, <1>3, <2>1, <2>2, <2>3 DEF FormatInv
<1>. QED BY <1>2, <1>3 DEF Accept

LEMMA FormatConfirm == FormatInv /\ Confirm => FormatInv'
<1>. SUFFICES ASSUME FormatInv, Confirm PROVE FormatInv'
  OBVIOUS
<1>1. /\ phase = "answered" /\ UNCHANGED <<phones, body, offer>>
      /\ Answers(body, codec["callee"], rtp_pt["callee"]) /\ rtp_pt["callee"] \in Formats(offer)
  BY DEF Confirm, FormatInv, setup
<1>2. CASE phase' = "refused" /\ UNCHANGED media
  BY <1>1, <1>2 DEF FormatInv, media
<1>3. ASSUME NEW c \in IF "caller" \in phones THEN PhoneChoices(body) ELSE Parsed("caller"),
             Settle("caller", c), phase' = "talk"
      PROVE  FormatInv'
  <2>1. c.codec = codec["callee"] /\ c.rtp_pt = rtp_pt["callee"]
    <3>1. c \in PhoneChoices(body)
          \/ \E g722, clear \in BOOLEAN : c \in SdpParse(body, g722, clear)
      <4>1. CASE "caller" \in phones
        BY <1>3, <4>1
      <4>2. CASE "caller" \notin phones
        <5>. DEFINE g722 == "caller" \in allow_g722
                    clear == "caller" \in clearmode
        <5>1. c \in SdpParse(body, g722, clear) /\ g722 \in BOOLEAN /\ clear \in BOOLEAN
          BY <1>3, <4>2 DEF Parsed
        <5>. QED BY <5>1, Zenon
      <4>. QED BY <4>1, <4>2
    <3>. QED BY <1>1, <3>1, OneChoice
  <2>2. /\ codec'["caller"] = c.codec /\ rtp_pt'["caller"] = c.rtp_pt
        /\ codec'["callee"] = codec["callee"] /\ rtp_pt'["callee"] = rtp_pt["callee"]
        /\ DOMAIN codec' = Ends /\ DOMAIN rtp_pt' = Ends
    BY <1>3 DEF Settle, FormatInv, Ends
  <2>. QED BY <1>1, <1>3, <2>1, <2>2 DEF FormatInv, EndsAgree
<1>. QED BY <1>2, <1>3 DEF Confirm

LEMMA FormatRest ==
    FormatInv /\ UNCHANGED <<phones, phase, body, offer, codec, rtp_pt>> => FormatInv'
BY DEF FormatInv, EndsAgree

LEMMA FormatStep == FormatInv /\ [NegotiationNext]_negotiationVars => FormatInv'
<1>. SUFFICES ASSUME FormatInv, [NegotiationNext]_negotiationVars PROVE FormatInv'
  OBVIOUS
<1>1. CASE Invite
  BY <1>1, FormatInvite
<1>2. CASE Accept
  BY <1>2, FormatAccept
<1>3. CASE Confirm
  BY <1>3, FormatConfirm
<1>4. CASE \E e \in Ends : Packet(e)
  BY <1>4, FormatRest DEF Packet, setup
<1>5. CASE \E e \in Ends : Stray(e)
  BY <1>5, FormatRest DEF Stray, setup
<1>6. CASE UNCHANGED negotiationVars
  BY <1>6, FormatRest DEF negotiationVars, setup, media
<1>. QED BY <1>1, <1>2, <1>3, <1>4, <1>5, <1>6 DEF NegotiationNext

\* What was agreed on is the one format of the answer.
LEMMA FormatSuffices == FormatInv => SameFormat
<1>. SUFFICES ASSUME FormatInv, phase = "talk" PROVE SameFormat
  BY DEF SameFormat
<1>. DEFINE k == codec["callee"]
            pt == rtp_pt["callee"]
<1>1. Answers(body, k, pt) /\ pt \in Formats(offer) /\ codec["caller"] = k /\ rtp_pt["caller"] = pt
  BY DEF FormatInv, EndsAgree
<1>2. pt \in Formats(body) /\ (k = CODEC_CLEARMODE \/ k = pt)
  <2>. HIDE DEF k, pt
  <2>1. CASE \E e : body = Speech(e, pt) /\ k = pt
    BY <2>1, TwoLines DEF Speech
  <2>2. CASE \E e : body = DataOnly(e, pt) /\ k = CODEC_CLEARMODE
    BY <2>2, ThreeLines DEF DataOnly
  <2>. QED BY <1>1, <2>1, <2>2 DEF Answers
<1>. QED BY <1>1, <1>2 DEF SameFormat

\* Whatever the options of the two ends and whatever a phone offers, a call that comes about
\* has one codec under one payload type at both ends, and the offer listed it for its audio
\* (call.c:134, build_sdp).
THEOREM FormatsAgree == NegotiationSpec => []SameFormat
<1>1. NegotiationSpec => []FormatInv
  BY FormatInit, FormatStep, PTL DEF NegotiationSpec
<1>. QED BY <1>1, FormatSuffices, PTL

-----------------------------------------------------------------------------
(* The bridge. *)

\* The room a read is given is still there when it happens: between select and the
\* read nothing is staged.
RoomIsThere == tcp_rx_len + tcp_room <= BufBytes

\* The packet select found is still in the socket.
PacketIsThere == at = "rtp" /\ "rtp" \in ready => rtp_in # <<>>

BridgeInv ==
    /\ TypeOK
    /\ RoomIsThere
    /\ PacketIsThere
    /\ PeerAudioConserved
    /\ ConsumerClocked

\* The smaller of two lengths is one of them and neither exceeds it (call.c:632).
LEMMA LeastFacts ==
    ASSUME NEW a \in Int, NEW b \in Int
    PROVE  /\ Least(a, b) \in {a, b} /\ Least(a, b) <= a /\ Least(a, b) <= b
BY DEF Least

\* tcp_write keeps the types of the socket and sets the count of writes it is given,
\* whether the kernel takes everything, a part or nothing (call.c:416).
LEMMA TcpWriteFacts ==
    ASSUME TypeOK, NEW len \in Nat, NEW ahead \in Int, TcpWrite(len, ahead)
    PROVE  /\ tcp_open' \in BOOLEAN /\ broken' \in BOOLEAN
           /\ lead' = ahead /\ rx_skew' \in 0..(Sample - 1)
<1>1. lead' = ahead
  BY DEF TcpWrite
<1>2. CASE UNCHANGED <<tcp_open, broken, rx_skew>>
  BY <1>1, <1>2 DEF TypeOK
<1>3. CASE /\ UNCHANGED <<tcp_open, broken>>
           /\ \E accepted \in 0..len : rx_skew' = (rx_skew + len - accepted) % Sample
  <2>1. PICK accepted \in 0..len : rx_skew' = (rx_skew + len - accepted) % Sample
    BY <1>3
  <2>2. rx_skew + len - accepted \in Nat
    BY <2>1, FrameAssumption DEF TypeOK
  <2>3. (rx_skew + len - accepted) % Sample \in 0..(Sample - 1)
    BY <2>2, FrameAssumption
  <2>. QED BY <1>1, <1>3, <2>1, <2>3 DEF TypeOK
<1>4. CASE tcp_open' = FALSE /\ broken' = TRUE /\ UNCHANGED rx_skew
  BY <1>1, <1>4 DEF TypeOK
<1>. QED BY <1>2, <1>3, <1>4 DEF TcpWrite, socket

\* The bridge starts with nothing staged and nothing sent (call.c:509).
LEMMA BridgeInit == Init => BridgeInv
<1>1. <<>> \in Seq(Decoded)
  OBVIOUS
<1>2. ASSUME Init PROVE TypeOK
  <2>1. /\ tcp_open \in BOOLEAN /\ broken \in BOOLEAN /\ peer_closed \in BOOLEAN
        /\ got_rtp_in_tick \in BOOLEAN
    BY <1>2 DEF Init
  <2>2. /\ at = "select" /\ ready = {} /\ tcp_room = 0 /\ tcp_rx_len = 0 /\ played = 0 /\ due = 0
        /\ rtp_in = <<>> /\ ctl = "none" /\ inq = 0 /\ sent = 0 /\ lead = 0 /\ rx_skew = 0
    BY <1>2 DEF Init
  <2>. QED BY <1>1, <2>1, <2>2, FrameAssumption, BoundAssumption DEF TypeOK
<1>3. Init => RoomIsThere /\ PacketIsThere /\ PeerAudioConserved
  BY FrameAssumption DEF Init, RoomIsThere, PacketIsThere, PeerAudioConserved
<1>4. Init => ConsumerClocked
  BY DEF Init, ConsumerClocked
<1>. QED BY <1>2, <1>3, <1>4 DEF BridgeInv

\* Taking the room at select leaves it within the buffer (call.c:532).
LEMMA SelectKeeps == BridgeInv /\ Select => BridgeInv'
<1> SUFFICES ASSUME BridgeInv, Select PROVE BridgeInv'
  OBVIOUS
<1> USE FrameAssumption
    DEF BridgeInv, TypeOK, RoomIsThere, PacketIsThere, PeerAudioConserved, ConsumerClocked
<1>1. ready' \in SUBSET {"rtp", "tcp", "ctl"} /\ ("rtp" \in ready' => rtp_in # <<>>)
  BY DEF Select, Readable
<1>2. UNCHANGED <<socket, staging, got_rtp_in_tick, due, rtp_in, ctl, peer, toPeer>>
  BY DEF Select
<1>3. UNCHANGED <<tcp_open, broken, tcp_rx_len, played, inq, peer_closed, sent, lead, rx_skew>>
  BY <1>2 DEF socket, staging, peer, toPeer
<1>4. tcp_room' \in 0..BufBytes /\ tcp_rx_len + tcp_room' <= BufBytes /\ at' = "rtp"
  BY DEF Select
<1>. QED BY <1>1, <1>2, <1>3, <1>4

\* A packet puts the writes one ahead of the ticks before the tick that counts on it
\* (call.c:578).
LEMMA RtpRxKeeps == BridgeInv /\ RtpRx => BridgeInv'
<1> SUFFICES ASSUME BridgeInv, RtpRx PROVE BridgeInv'
  OBVIOUS
<1> USE FrameAssumption, BoundAssumption
    DEF BridgeInv, TypeOK, RoomIsThere, PacketIsThere, PeerAudioConserved, ConsumerClocked
<1>1. UNCHANGED <<ready, tcp_room, tcp_rx_len, played, due, ctl, inq, peer_closed, sent>> /\ at' = "tcp"
  BY DEF RtpRx, staging, peer
<1>2. CASE "rtp" \in ready /\ Head(rtp_in) > 0 /\ ~IgnoreRtp
  <2>1. rtp_in # <<>> /\ Head(rtp_in) \in Nat /\ rtp_in' \in Seq(Decoded)
    <3>1. at = "rtp" /\ rtp_in' = Tail(rtp_in)
      BY <1>2 DEF RtpRx
    <3>2. rtp_in # <<>> /\ rtp_in \in Seq(Decoded)
      BY <1>2, <3>1
    <3>3. Head(rtp_in) \in Decoded /\ Tail(rtp_in) \in Seq(Decoded)
      BY <3>2
    <3>. QED BY <3>1, <3>2, <3>3
  <2>2. got_rtp_in_tick' = TRUE /\ TcpWrite(Head(rtp_in), Least(lead + 1, MaxLead))
    BY <1>2, <2>1 DEF RtpRx
  <2>3. lead >= 0
    BY <1>2
  <2>4. Least(lead + 1, MaxLead) \in Int /\ Least(lead + 1, MaxLead) >= 1
    BY <2>3 DEF Least
  <2>5. /\ tcp_open' \in BOOLEAN /\ broken' \in BOOLEAN
        /\ lead' = Least(lead + 1, MaxLead) /\ rx_skew' \in 0..(Sample - 1)
    BY <2>1, <2>2, <2>4, TcpWriteFacts
  <2>. QED BY <1>1, <2>1, <2>2, <2>4, <2>5
<1>3. CASE "rtp" \in ready /\ ~(Head(rtp_in) > 0 /\ ~IgnoreRtp)
  <2>1. rtp_in # <<>> /\ Head(rtp_in) \in Nat /\ rtp_in' \in Seq(Decoded)
    <3>1. at = "rtp" /\ rtp_in' = Tail(rtp_in)
      BY <1>3 DEF RtpRx
    <3>2. rtp_in # <<>> /\ rtp_in \in Seq(Decoded)
      BY <1>3, <3>1
    <3>3. Head(rtp_in) \in Decoded /\ Tail(rtp_in) \in Seq(Decoded)
      BY <3>2
    <3>. QED BY <3>1, <3>2, <3>3
  <2>2. got_rtp_in_tick' \in BOOLEAN /\ (~IgnoreRtp => got_rtp_in_tick' = got_rtp_in_tick)
    BY <1>3, <2>1 DEF RtpRx
  <2>3. UNCHANGED <<tcp_open, broken, lead, rx_skew>>
    BY <1>3 DEF RtpRx, socket, toPeer
  <2>. QED BY <1>1, <2>1, <2>2, <2>3
<1>4. CASE "rtp" \notin ready
  <2>1. UNCHANGED <<rtp_in, got_rtp_in_tick, tcp_open, broken, lead, rx_skew>>
    BY <1>4 DEF RtpRx, socket, toPeer
  <2>. QED BY <1>1, <2>1
<1>. QED BY <1>2, <1>3, <1>4

\* A read moves bytes from the kernel into the staging buffer, as many as fit
\* (call.c:587).
LEMMA TcpRxKeeps == BridgeInv /\ TcpRx => BridgeInv'
<1> SUFFICES ASSUME BridgeInv, TcpRx PROVE BridgeInv'
  OBVIOUS
<1> USE FrameAssumption
    DEF BridgeInv, TypeOK, RoomIsThere, PacketIsThere, PeerAudioConserved, ConsumerClocked
<1>1. /\ UNCHANGED <<ready, played, got_rtp_in_tick, due, rtp_in, ctl, peer_closed, sent, lead, rx_skew>>
      /\ at' = "ctl" /\ tcp_room' = 0
  BY DEF TcpRx, toPeer
<1>2. tcp_open' \in BOOLEAN /\ broken' \in BOOLEAN
  BY DEF TcpRx, socket
<1>3. CASE UNCHANGED <<inq, tcp_rx_len>>
  BY <1>1, <1>2, <1>3
<1>4. CASE \E r \in 1..Least(inq, tcp_room) : inq' = inq - r /\ tcp_rx_len' = tcp_rx_len + r
  <2>1. PICK r \in 1..Least(inq, tcp_room) : inq' = inq - r /\ tcp_rx_len' = tcp_rx_len + r
    BY <1>4
  <2>2. r \in Nat /\ r <= inq /\ r <= tcp_room
    BY <2>1, LeastFacts
  <2>. QED BY <1>1, <1>2, <2>1, <2>2
<1>. QED BY <1>3, <1>4 DEF TcpRx

\* Reading the dispatch pipe leaves audio alone (call.c:603).
LEMMA ControlKeeps == BridgeInv /\ Control => BridgeInv'
BY DEF Control, BridgeInv, TypeOK, RoomIsThere, PacketIsThere, PeerAudioConserved, ConsumerClocked,
       socket, staging, peer, toPeer

\* A tick plays what it takes off the staging buffer, and spends the write RTP put
\* ahead or makes one of its own (call.c:629).
LEMMA TickKeeps == BridgeInv /\ Tick => BridgeInv'
<1> SUFFICES ASSUME BridgeInv, Tick PROVE BridgeInv'
  OBVIOUS
<1> USE FrameAssumption, BoundAssumption
    DEF BridgeInv, TypeOK, RoomIsThere, PacketIsThere, PeerAudioConserved, ConsumerClocked
<1>1. UNCHANGED <<ready, tcp_room, rtp_in, ctl, inq, peer_closed, sent>> /\ at' = "select"
  BY DEF Tick, peer
<1>2. CASE due > 0
  <2> DEFINE take == Least(tcp_rx_len, Frame)
  <2>1. take \in Nat /\ take <= tcp_rx_len
    BY LeastFacts
  <2>2. due' = due - 1 /\ tcp_rx_len' = tcp_rx_len - take /\ played' = played + take
    BY <1>2 DEF Tick, staging
  <2>3. ~got_rtp_in_tick' /\ got_rtp_in_tick' \in BOOLEAN
    <3>1. got_rtp_in_tick' = FALSE
      BY <1>2 DEF Tick
    <3>. QED BY <3>1
  <2> HIDE DEF take
  <2>4. CASE got_rtp_in_tick \/ IgnoreRtp
    <3>1. UNCHANGED <<tcp_open, broken, rx_skew>> /\ lead' = lead - 1
      BY <1>2, <2>4 DEF Tick, socket
    <3>2. TypeOK'
      BY <1>1, <1>2, <2>1, <2>2, <2>3, <3>1
    <3>3. RoomIsThere' /\ PacketIsThere' /\ PeerAudioConserved'
      BY <1>1, <2>1, <2>2, <2>3
    <3>4. ConsumerClocked'
      BY <2>2, <2>4, <2>3, <3>1
    <3>. QED BY <3>2, <3>3, <3>4
  <2>5. CASE ~(got_rtp_in_tick \/ IgnoreRtp)
    <3>1. TcpWrite(Frame, lead)
      BY <1>2, <2>5 DEF Tick
    <3>2. /\ tcp_open' \in BOOLEAN /\ broken' \in BOOLEAN
          /\ lead' = lead /\ rx_skew' \in 0..(Sample - 1)
      BY <3>1, TcpWriteFacts
    <3>3. TypeOK'
      BY <1>1, <1>2, <2>1, <2>2, <2>3, <3>2
    <3>4. RoomIsThere' /\ PacketIsThere' /\ PeerAudioConserved'
      BY <1>1, <2>1, <2>2, <2>3
    <3>5. ConsumerClocked'
      BY <2>2, <2>5, <2>3, <3>2
    <3>. QED BY <3>3, <3>4, <3>5
  <2>. QED BY <2>4, <2>5
<1>3. CASE ~(due > 0)
  <2>1. UNCHANGED <<due, tcp_rx_len, played, tcp_open, broken, lead, rx_skew, got_rtp_in_tick>>
    BY <1>3 DEF Tick, staging, socket, toPeer
  <2>. QED BY <1>1, <2>1
<1>. QED BY <1>2, <1>3

\* The clock, the caller and the peer add ticks, packets, messages and bytes; none of
\* them touches the bridge's own state.
LEMMA WorldKeeps ==
    BridgeInv /\ (\/ Clock \/ PeerWrites \/ PeerCloses
                  \/ \E n \in Decoded : RtpArrives(n)
                  \/ \E m \in {"bye", "other"} : CallerSends(m)) => BridgeInv'
<1> USE FrameAssumption, BoundAssumption
    DEF BridgeInv, TypeOK, RoomIsThere, PacketIsThere, PeerAudioConserved, ConsumerClocked,
        socket, staging, peer, toPeer
<1>1. BridgeInv /\ Clock => BridgeInv'
  BY DEF Clock
<1>2. ASSUME BridgeInv, PeerWrites PROVE BridgeInv'
  <2>1. PICK n \in 1..(MaxSent - sent) : inq' = inq + n /\ sent' = sent + n
    BY <1>2 DEF PeerWrites
  <2>. QED BY <1>2, <2>1 DEF PeerWrites
<1>3. BridgeInv /\ PeerCloses => BridgeInv'
  BY DEF PeerCloses
<1>4. ASSUME BridgeInv, NEW n \in Decoded, RtpArrives(n) PROVE BridgeInv'
  <2>1. rtp_in' \in Seq(Decoded) /\ rtp_in' # <<>>
    BY <1>4 DEF RtpArrives
  <2>. QED BY <1>4, <2>1 DEF RtpArrives
<1>5. ASSUME BridgeInv, NEW m \in {"bye", "other"}, CallerSends(m) PROVE BridgeInv'
  BY <1>5 DEF CallerSends
<1>. QED BY <1>1, <1>2, <1>3, <1>4, <1>5

\* Every step of the loop and of its surroundings preserves the invariant.
LEMMA BridgeStep == BridgeInv /\ [Next]_vars => BridgeInv'
<1> SUFFICES ASSUME BridgeInv, [Next]_vars PROVE BridgeInv'
  OBVIOUS
<1>1. CASE Loop
  BY <1>1, SelectKeeps, RtpRxKeeps, TcpRxKeeps, ControlKeeps, TickKeeps DEF Loop
<1>2. CASE Next /\ ~Loop
  BY <1>2, WorldKeeps DEF Next
<1>3. CASE UNCHANGED vars
  BY <1>3 DEF vars, BridgeInv, TypeOK, RoomIsThere, PacketIsThere, PeerAudioConserved,
              ConsumerClocked, socket, staging, peer, toPeer
<1>. QED BY <1>1, <1>2, <1>3 DEF Next

\* The invariant of the bridge holds in every reachable state, whatever the sizes of
\* frame, buffer and packets.
THEOREM BridgeInvariant == Spec => []BridgeInv
BY BridgeInit, BridgeStep, PTL DEF Spec

\* The staging buffer never overflows, although the room for a read is computed
\* before select (call.c:532).
THEOREM BridgeTypes == Spec => []TypeOK
<1>1. BridgeInv => TypeOK
  BY DEF BridgeInv
<1>. QED BY <1>1, BridgeInvariant, PTL

\* What the peer wrote is played, staged or still in the kernel: back-pressure loses
\* and repeats nothing (call.c:528, README.md:90).
THEOREM BridgeConserves == Spec => []PeerAudioConserved
<1>1. BridgeInv => PeerAudioConserved
  BY DEF BridgeInv
<1>. QED BY <1>1, BridgeInvariant, PTL

\* The peer's clock never falls behind the ticks (call.c:658, README.md:86).
THEOREM BridgeClocked == Spec => []ConsumerClocked
<1>1. BridgeInv => ConsumerClocked
  BY DEF BridgeInv
<1>. QED BY <1>1, BridgeInvariant, PTL
=============================================================================

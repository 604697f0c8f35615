-------------------------- MODULE FskSessionProofs --------------------------
(***************************************************************************)
(* Three results on the modem servers, for all sizes and any number of     *)
(* sessions.  The cap: g_session_count is raised in the accept loop and    *)
(* lowered by threads that end on several paths, and it decides on a       *)
(* number read before the other threads went on.  The queues: the room in  *)
(* tx_q is computed before select and used three steps later, and a banner *)
(* goes into the same queue in between.  The far end: its deframer starts  *)
(* its bit clock on the edge of a start bit and reads half a bit later, so *)
(* a byte may be read while the framer is at the next bit already, and the *)
(* first comes when the lead-in has filled the far end's window.           *)
(***************************************************************************)
EXTENDS FskSession, SequenceTheorems, TLAPS

Counters ==
    /\ main \in [at : {"accept", "counted"}, n : Nat]
    /\ count \in Nat /\ others \in Nat

\* The connection that is being decided on was given a number that counts every session
\* there still is: meanwhile they can only become fewer.
CountedInTime == main.at = "counted" => count <= main.n

CapInv == Counters /\ CountMatches /\ CountedInTime

\* A step that neither starts nor ends the session and leaves the accept loop alone.
Apart ==
    /\ UNCHANGED <<main, count, others>>
    /\ at # "none" <=> at' # "none"

\* The cap is at least one.
LEMMA CapSize == MaxSessions \in Nat /\ MaxSessions > 0
BY SessionAssumption

\* Counting looks at the accept loop and at whether the session's thread exists.
LEMMA ApartKeeps == CapInv /\ Apart => CapInv'
BY DEF CapInv, Apart, Counters, CountMatches, CountedInTime

\* No session, no thread, count zero.
LEMMA CapInit == Init => CapInv
BY CapSize DEF Init, CapInv, Counters, CountMatches, CountedInTime

\* Every pass of the loop of a session, on every path out of it, up to its last step
\* (modem_fsk.c:354-507).
LEMMA PassIsApart ==
    \/ Start \/ Select \/ AudioIn \/ Sample \/ AudioOut
    \/ CarrierAndBanner \/ Dial \/ DataIn \/ DataOut
    => Apart
<1>1. Start => Apart
  BY DEF Start, Connect, Over, Apart, server
<1>2. Select => Apart
  BY DEF Select, Over, Apart, server
<1>3. AudioIn => Apart
  BY DEF AudioIn, Over, Apart, server
<1>4. Sample => Apart
  BY DEF Sample, Apart, server
<1>5. AudioOut => Apart
  BY DEF AudioOut, Apart, server
<1>6. CarrierAndBanner => Apart
  BY DEF CarrierAndBanner, Apart, server
<1>7. Dial => Apart
  BY DEF Dial, Connect, Over, Apart, server
<1>8. DataIn => Apart
  BY DEF DataIn, Apart, server
<1>9. DataOut => Apart
  BY DEF DataOut, Apart, server
<1>. QED BY <1>1, <1>2, <1>3, <1>4, <1>5, <1>6, <1>7, <1>8, <1>9

\* So are the steps of the caller, the data peer and the clock.
LEMMA OutsideIsApart ==
    DelayPasses \/ PcmArrives \/ HangUp \/ PeerWrites \/ PeerCloses => Apart
<1>1. DelayPasses => Apart
  BY DEF DelayPasses, Apart, server
<1>2. PcmArrives \/ HangUp \/ PeerWrites \/ PeerCloses => Apart
  BY DEF PcmArrives, HangUp, PeerWrites, PeerCloses, Apart, server, session
<1>. QED BY <1>1, <1>2

\* A connection is counted in one atomic step, its fate decided after it (modem_fsk.c:762).
LEMMA AcceptKeeps == CapInv /\ Accept => CapInv'
<1>. SUFFICES ASSUME CapInv, Accept PROVE CapInv'
  OBVIOUS
<1>1. /\ main.at = "accept" /\ count' = count + 1 /\ others' = others /\ at' = at
      /\ main' = [at |-> "counted", n |-> count + 1]
  BY DEF Accept, session
<1>2. Counters'
  BY <1>1 DEF CapInv, Counters
<1>3. CountMatches'
  BY <1>1, CapSize DEF CapInv, Counters, CountMatches
<1>4. CountedInTime'
  BY <1>1 DEF CapInv, Counters, CountedInTime
<1>. QED BY <1>2, <1>3, <1>4 DEF CapInv

\* Only a connection whose number is within the cap gets a thread, and none has appeared
\* since the number was given (modem_fsk.c:762-784).
LEMMA AdmitKeeps == CapInv /\ Admit => CapInv'
<1>. SUFFICES ASSUME CapInv, Admit PROVE CapInv'
  OBVIOUS
<1>1. main.at = "counted" /\ main' = [at |-> "accept", n |-> 0]
  BY DEF Admit
<1>2. main'.at = "accept" /\ main' \in [at : {"accept", "counted"}, n : Nat]
  BY <1>1
<1>3. count \in Nat /\ others \in Nat /\ main.n \in Nat /\ count <= main.n
  BY <1>1 DEF CapInv, Counters, CountedInTime
<1>4. count = others + (IF at = "none" THEN 0 ELSE 1) + 1
  BY <1>1, <1>3 DEF CapInv, CountMatches
<1>5. others + (IF at = "none" THEN 0 ELSE 1) <= MaxSessions
  BY DEF CapInv, CountMatches
<1>6. CASE count' = count - 1 /\ at' = at /\ others' = others
  BY <1>6, <1>2, <1>3, <1>4, <1>5, CapSize
     DEF CapInv, Counters, CountMatches, CountedInTime
<1>7. CASE main.n <= MaxSessions /\ at = "none" /\ at' = "start"
           /\ count' = count /\ others' = others
  BY <1>7, <1>2, <1>3, <1>4, CapSize
     DEF CapInv, Counters, CountMatches, CountedInTime
<1>8. CASE main.n <= MaxSessions /\ others' = others + 1 /\ count' = count /\ at' = at
  BY <1>8, <1>2, <1>3, <1>4, CapSize
     DEF CapInv, Counters, CountMatches, CountedInTime
<1>. QED BY <1>6, <1>7, <1>8 DEF Admit

\* A thread uncounts itself as the last thing it does (modem_fsk.c:548-552).
LEMMA EndKeeps == CapInv /\ (Uncount \/ OtherEnds) => CapInv'
<1>. SUFFICES ASSUME CapInv, Uncount \/ OtherEnds PROVE CapInv'
  OBVIOUS
<1>1. /\ main' = main /\ count' = count - 1
      /\ \/ at = "over" /\ at' = "none" /\ others' = others
         \/ others > 0 /\ others' = others - 1 /\ at' = at
  BY DEF Uncount, OtherEnds, session
<1>2. main \in [at : {"accept", "counted"}, n : Nat] /\ count \in Nat /\ others \in Nat
  BY DEF CapInv, Counters
<1>3. count' \in Nat /\ others' \in Nat /\ count' <= count
  BY <1>1, <1>2 DEF CapInv, CountMatches
<1>4. CountMatches'
  BY <1>1, <1>2, CapSize DEF CapInv, CountMatches
<1>5. CountedInTime'
  BY <1>1, <1>2, <1>3 DEF CapInv, CountedInTime
<1>. QED BY <1>1, <1>2, <1>3, <1>4, <1>5 DEF CapInv, Counters

\* The cap: every session that runs is counted, nothing else is but the connection being
\* decided on, and no more than MaxSessions run at once, in any order in which
\* connections are accepted and sessions end.
THEOREM SessionCap == Spec => []CountMatches
<1>1. CapInv /\ [Next]_vars => CapInv'
  <2>. SUFFICES ASSUME CapInv, [Next]_vars PROVE CapInv'
    OBVIOUS
  <2>1. CASE Uncount \/ OtherEnds
    BY <2>1, EndKeeps
  <2>2. CASE Accept
    BY <2>2, AcceptKeeps
  <2>3. CASE Admit
    BY <2>3, AdmitKeeps
  <2>4. CASE Start \/ Select \/ AudioIn \/ Sample \/ AudioOut
             \/ CarrierAndBanner \/ Dial \/ DataIn \/ DataOut
    BY <2>4, PassIsApart, ApartKeeps
  <2>5. CASE DelayPasses \/ PcmArrives \/ HangUp \/ PeerWrites \/ PeerCloses
    BY <2>5, OutsideIsApart, ApartKeeps
  <2>6. CASE UNCHANGED vars
    BY <2>6, ApartKeeps DEF Apart, vars, server, session
  <2>. QED BY <2>1, <2>2, <2>3, <2>4, <2>5, <2>6 DEF Next, Loop
<1>2. CapInv => CountMatches
  BY DEF CapInv
<1>. QED BY CapInit, <1>1, <1>2, PTL DEF Spec

-----------------------------------------------------------------------------
(* The queues. *)

\* The framer has a byte in every state but idle, and indexes it within its bits.
TxType == [state: {"idle", "start", "data", "parity", "stop"}, byte: Bytes \cup {NoByte},
           index: Nat, phase: Nat, tone: BOOLEAN, break: BOOLEAN]
FramerOK(t) ==
    /\ t \in TxType
    /\ t.state # "idle" => t.byte \in Bytes
    /\ t.state = "data" => t.index < DataBits

\* Of the deframer only carrier detection is followed in a session.
RxType == [state: {"idleMark"}, bits: {<<>>}, stop: {0}, phase: {0}, warm: {0},
           streak: Nat, carrier: BOOLEAN]

\* A session_t whose queues are within their arrays.
SessionOK(t) ==
    /\ t \in [tx: TxType, tx_q: Seq(Bytes), tx_leadin: 0..LeadIn, rx_q_len: 0..RxSize,
              break_state: {"idle", "active", "done"}, rx: RxType]
    /\ FramerOK(t.tx) /\ Len(t.tx_q) <= TxSize

\* Where the thread may be, and the ranges of what it counts.
Place ==
    /\ at \in {"none", "start", "select", "audio", "samples", "line", "dial", "dataIn",
               "dataOut", "over"}
    /\ ready \subseteq {"audio", "data", "write"} /\ room \in 0..TxSize
    /\ audio_open \in BOOLEAN /\ data_open \in BOOLEAN
    /\ hdr \in 0..HeaderLen /\ stage \in 0..1 /\ todo \in 0..ReadBytes
    /\ carrier_seen \in BOOLEAN /\ banner_sent \in 0..BannerLen

Outside ==
    /\ pcm \in BOOLEAN /\ hung_up \in BOOLEAN
    /\ peer_closed \in BOOLEAN /\ waiting \in Seq(Bytes)
    /\ others \in 0..MaxOthers

\* A data peer is connected, and read, only once the banner has gone.
BannerFirst ==
    (data_open \/ "data" \in ready) /\ opt.banner => banner_sent = BannerLen

\* The room that select was called with is still there when the data peer is read.
RoomIsThere ==
    at \in {"audio", "samples", "line", "dial", "dataIn"} /\ "data" \in ready =>
        Len(s.tx_q) + room <= TxSize

\* Without a running loop there is no data peer.
ClosedWhenIdle == at \in {"none", "start", "over"} => ~data_open

QueueInv ==
    Place /\ Outside /\ SessionOK(s) /\ BannerFirst /\ RoomIsThere /\ ClosedWhenIdle

\* The sizes the proofs compute with.
LEMMA Sizes ==
    /\ DataBits \in Nat /\ DataBits > 0 /\ BitSamples \in Nat /\ BitSamples > 1
    /\ TxSize \in Nat /\ TxSize > 0 /\ RxSize \in Nat /\ RxSize > 0
    /\ BannerLen \in Nat /\ BannerLen > 0 /\ MaxSessions \in Nat /\ MaxSessions > 0
    /\ ReadBytes \in Nat /\ ReadBytes > 0
    /\ LeadIn \in Nat /\ Prefix \in Nat /\ HeaderLen \in Nat /\ Prefix < HeaderLen
    /\ MaxWritten \in Nat /\ MaxOthers \in Nat /\ PeerBytes \subseteq Bytes
BY FramingAssumption, SessionAssumption

\* The smaller of two lengths is one of them and neither exceeds it (modem_fsk.c:459).
LEMMA LeastFacts ==
    ASSUME NEW a \in Int, NEW b \in Int
    PROVE  /\ Least(a, b) \in {a, b} /\ Least(a, b) <= a /\ Least(a, b) <= b
BY DEF Least

\* A part of a sequence of bytes, and its length (modem_fsk.c:461, 484).
LEMMA PartFacts ==
    ASSUME NEW q \in Seq(Bytes), NEW m \in Nat \ {0}, NEW n \in Nat, n <= Len(q), m <= n + 1
    PROVE  SubSeq(q, m, n) \in Seq(Bytes) /\ Len(SubSeq(q, m, n)) = n - m + 1
BY SubSeqProperties

\* The framer at another bit of the same byte (fsk.c:244-247, 262-265).
LEMMA OneBitOn ==
    ASSUME NEW t, FramerOK(t), NEW i \in Nat, NEW bit \in BOOLEAN,
           t.state = "data" => i < DataBits
    PROVE  FramerOK([t EXCEPT !.index = i, !.tone = bit])
BY DEF FramerOK, TxType

\* A framer that leaves the queue as it is.
LEMMA PairFacts ==
    ASSUME NEW t, FramerOK(t), NEW q \in Seq(Bytes), NEW p, p = <<t, q>>
    PROVE  FramerOK(p[1]) /\ p[2] \in Seq(Bytes) /\ Len(p[2]) <= Len(q)
<1>1. p[1] = t /\ p[2] = q /\ Len(q) \in Nat
  OBVIOUS
<1>. QED BY <1>1

\* Advancing the framer takes at most the first byte off the queue and stays within the
\* bits of its byte (fsk.c:186-274).
LEMMA AdvanceFacts ==
    ASSUME NEW t, FramerOK(t), NEW q \in Seq(Bytes)
    PROVE  /\ FramerOK(TxAdvance(t, q)[1])
           /\ TxAdvance(t, q)[2] \in Seq(Bytes)
           /\ Len(TxAdvance(t, q)[2]) <= Len(q)
<1>1. /\ FramerOK(StartFrame(t, q)[1])
      /\ StartFrame(t, q)[2] \in Seq(Bytes)
      /\ Len(StartFrame(t, q)[2]) <= Len(q)
  <2>1. CASE q = <<>>
    <3>1. FramerOK(StartFrame(t, q)[1])
      BY <2>1 DEF StartFrame, FramerOK, TxType
    <3>2. StartFrame(t, q)[2] = q
      BY <2>1 DEF StartFrame
    <3>. QED BY <3>1, <3>2
  <2>2. CASE q # <<>>
    <3>1. Head(q) \in Bytes /\ Tail(q) \in Seq(Bytes) /\ Len(Tail(q)) <= Len(q)
      BY <2>2
    <3>2. FramerOK(StartFrame(t, q)[1])
      BY <2>2, <3>1 DEF StartFrame, FramerOK, TxType
    <3>3. StartFrame(t, q)[2] = Tail(q)
      BY <2>2 DEF StartFrame
    <3>. QED BY <3>1, <3>2, <3>3
  <2>. QED BY <2>1, <2>2
<1>2. CASE t.state = "idle"
  <2>1. TxAdvance(t, q) = StartFrame(t, q)
    BY <1>2 DEF TxAdvance
  <2>. QED BY <1>1, <2>1
<1>3. CASE t.state = "start"
  <2>1. TxAdvance(t, q) = <<TxTo(t, "data", t.byte[1]), q>>
    BY <1>3 DEF TxAdvance
  <2>2. t.byte[1] \in BOOLEAN
    BY <1>3, Sizes DEF FramerOK, Bytes
  <2>3. FramerOK(TxTo(t, "data", t.byte[1]))
    BY <1>3, <2>2, Sizes DEF TxTo, FramerOK, TxType
  <2>. QED BY <2>1, <2>3
<1>4. CASE t.state = "data" /\ t.index + 1 < DataBits
  <2>1. TxAdvance(t, q) = <<[t EXCEPT !.index = @ + 1, !.tone = t.byte[t.index + 2]], q>>
    <3>1. ~(t.index + 1 >= DataBits)
      BY <1>4, Sizes DEF FramerOK, TxType
    <3>. QED BY <1>4, <3>1 DEF TxAdvance
  <2>2. t.byte[t.index + 2] \in BOOLEAN /\ t.index + 1 \in Nat
    BY <1>4, Sizes DEF FramerOK, Bytes, TxType
  <2>3. FramerOK([t EXCEPT !.index = t.index + 1, !.tone = t.byte[t.index + 2]])
    BY <1>4, <2>2, OneBitOn
  <2>. QED BY <2>1, <2>3, PairFacts
<1>5. CASE t.state = "data" /\ ~(t.index + 1 < DataBits)
  <2>1. t.index + 1 >= DataBits
    BY <1>5, Sizes DEF FramerOK, TxType
  <2>2. CASE Parity # "N"
    <3>1. TxAdvance(t, q) = <<TxTo(t, "parity", ParityBit(t.byte)), q>>
      BY <1>5, <2>1, <2>2 DEF TxAdvance
    <3>2. ParityBit(t.byte) \in BOOLEAN
      BY <2>2, FramingAssumption DEF ParityBit
    <3>3. FramerOK(TxTo(t, "parity", ParityBit(t.byte)))
      BY <1>5, <3>2 DEF TxTo, FramerOK, TxType
    <3>. QED BY <3>1, <3>3
  <2>3. CASE Parity = "N"
    <3>1. TxAdvance(t, q) = <<TxTo(t, "stop", TRUE), q>>
      BY <1>5, <2>1, <2>3 DEF TxAdvance
    <3>2. FramerOK(TxTo(t, "stop", TRUE))
      BY <1>5 DEF TxTo, FramerOK, TxType
    <3>. QED BY <3>1, <3>2, PairFacts
  <2>. QED BY <2>2, <2>3
<1>6. CASE t.state = "parity"
  <2>1. TxAdvance(t, q) = <<TxTo(t, "stop", TRUE), q>>
    BY <1>6 DEF TxAdvance
  <2>2. FramerOK(TxTo(t, "stop", TRUE))
    BY <1>6 DEF TxTo, FramerOK, TxType
  <2>. QED BY <2>1, <2>2, PairFacts
<1>7. CASE t.state = "stop" /\ t.index + 1 < StopBits
  <2>1. TxAdvance(t, q) = <<[t EXCEPT !.index = @ + 1, !.tone = TRUE], q>>
    <3>1. ~(t.index + 1 >= StopBits)
      BY <1>7, FramingAssumption DEF FramerOK, TxType
    <3>. QED BY <1>7, <3>1 DEF TxAdvance
  <2>2. t.index + 1 \in Nat /\ TRUE \in BOOLEAN
    BY DEF FramerOK, TxType
  <2>3. FramerOK([t EXCEPT !.index = t.index + 1, !.tone = TRUE])
    BY <1>7, <2>2, OneBitOn
  <2>. QED BY <2>1, <2>3, PairFacts
<1>8. CASE t.state = "stop" /\ ~(t.index + 1 < StopBits)
  <2>1. t.index + 1 >= StopBits
    BY <1>8, FramingAssumption DEF FramerOK, TxType
  <2>2. TxAdvance(t, q) = StartFrame(t, q)
    BY <1>8, <2>1 DEF TxAdvance
  <2>. QED BY <1>1, <2>2
<1>. QED BY <1>2, <1>3, <1>4, <1>5, <1>6, <1>7, <1>8 DEF FramerOK, TxType

\* A sample sent takes at most one byte off the queue (fsk.c:276-298).
LEMMA SampleFacts ==
    ASSUME NEW t, FramerOK(t), NEW q \in Seq(Bytes)
    PROVE  /\ FramerOK(TxSample(t, q).tx)
           /\ TxSample(t, q).queue \in Seq(Bytes)
           /\ Len(TxSample(t, q).queue) <= Len(q)
<1>. DEFINE now == IF t.break THEN [t EXCEPT !.tone = FALSE] ELSE t
            then == IF now.break \/ ~Ticks(now.phase) THEN <<now, q>> ELSE TxAdvance(now, q)
<1>1. FramerOK(now)
  BY DEF FramerOK, TxType
<1>2. /\ FramerOK(TxAdvance(now, q)[1])
      /\ TxAdvance(now, q)[2] \in Seq(Bytes)
      /\ Len(TxAdvance(now, q)[2]) <= Len(q)
  <2>. HIDE DEF now
  <2>. QED BY <1>1, AdvanceFacts
<1>3. /\ FramerOK(then[1]) /\ then[2] \in Seq(Bytes) /\ Len(then[2]) <= Len(q)
  <2>. HIDE DEF now
  <2>. QED BY <1>1, <1>2
<1>4. FramerOK([then[1] EXCEPT !.phase = Tick(@)])
  <2>. DEFINE u == then[1]
  <2>1. FramerOK(u)
    BY <1>3
  <2>. HIDE DEF u
  <2>2. u.phase \in Nat /\ Tick(u.phase) \in Nat
    BY <2>1, Sizes DEF FramerOK, TxType, Tick
  <2>3. FramerOK([u EXCEPT !.phase = Tick(@)])
    BY <2>1, <2>2 DEF FramerOK, TxType
  <2>. QED BY <2>3 DEF u
<1>5. /\ TxSample(t, q).tx = IF now.break THEN now ELSE [then[1] EXCEPT !.phase = Tick(@)]
      /\ TxSample(t, q).queue = then[2]
  BY DEF TxSample
<1>. HIDE DEF now, then
<1>. QED BY <1>1, <1>3, <1>4, <1>5

\* Its two fields.
LEMMA CarrierSet ==
    ASSUME NEW r \in RxType, NEW n \in Nat, NEW here \in BOOLEAN
    PROVE  [r EXCEPT !.streak = n, !.carrier = here] \in RxType
BY DEF RxType

\* Carrier detection counts, and nothing else of the deframer moves (fsk.c:365-376).
LEMMA SenseFacts ==
    ASSUME NEW r \in RxType, NEW level \in BOOLEAN
    PROVE  SenseCarrier(r, level) \in RxType
<1>1. CASE level = r.carrier
  BY <1>1 DEF SenseCarrier, RxType
<1>2. CASE level # r.carrier
  <2>. DEFINE hold == r.streak + 1 < (IF level THEN OnHold ELSE OffHold)
  <2>1. CASE hold
    <3>1. SenseCarrier(r, level) = [r EXCEPT !.streak = @ + 1]
      BY <1>2, <2>1 DEF SenseCarrier
    <3>. QED BY <3>1 DEF RxType
  <2>2. CASE ~hold
    <3>1. SenseCarrier(r, level) = [r EXCEPT !.streak = 0, !.carrier = level]
      BY <1>2, <2>2 DEF SenseCarrier
    <3>2. 0 \in Nat
      OBVIOUS
    <3>3. [r EXCEPT !.streak = 0, !.carrier = level] \in RxType
      BY <3>2, CarrierSet, Zenon
    <3>. QED BY <3>1, <3>3
  <2>. QED BY <2>1, <2>2
<1>. QED BY <1>1, <1>2

\* A session as it begins (modem_fsk.c:538-544).
LEMMA StartOK == SessionOK(SessionStart)
<1>1. TxStart \in TxType /\ FramerOK(TxStart)
  BY DEF TxStart, TxType, FramerOK
<1>2. RxStart \in RxType
  BY DEF RxStart, RxType
<1>3. SessionStart.tx = TxStart /\ SessionStart.tx_q = <<>>
  BY DEF SessionStart
<1>4. SessionStart \in [tx: TxType, tx_q: Seq(Bytes), tx_leadin: 0..LeadIn,
                        rx_q_len: 0..RxSize, break_state: {"idle", "active", "done"},
                        rx: RxType]
  BY <1>1, <1>2, Sizes DEF SessionStart
<1>. QED BY <1>1, <1>3, <1>4, Sizes DEF SessionOK

\* One sample of a session: what it queues for the data peer stops at the end of the
\* array, and of what is queued for the line it takes at most a byte
\* (modem_fsk.c:319-346).
LEMMA SampledOK ==
    ASSUME NEW t, SessionOK(t), NEW f, NEW byte \in BOOLEAN, NEW level \in BOOLEAN
    PROVE  /\ SessionOK(ProcessSample(<<t, f>>, byte, level)[1])
           /\ Len(ProcessSample(<<t, f>>, byte, level)[1].tx_q) <= Len(t.tx_q)
<1>. DEFINE q == [t EXCEPT
                !.rx = SenseCarrier(@, level),
                !.tx.break = IF byte /\ t.break_state = "active" THEN FALSE ELSE @,
                !.break_state = IF byte /\ @ = "active" THEN "done" ELSE @,
                !.rx_q_len = IF byte THEN Least(@ + 1, RxSize) ELSE @]
            lead == q.tx_leadin > 0
            out == TxSample(q.tx, IF lead THEN <<>> ELSE q.tx_q)
            queue == IF lead THEN q.tx_q ELSE out.queue
            left == IF lead THEN q.tx_leadin - 1 ELSE 0
            after == [q EXCEPT !.tx = out.tx, !.tx_q = queue, !.tx_leadin = left]
<1>1. ProcessSample(<<t, f>>, byte, level)[1] = after
  BY DEF ProcessSample
<1>2. SenseCarrier(t.rx, level) \in RxType
  BY SenseFacts DEF SessionOK
<1>3. (IF byte THEN Least(t.rx_q_len + 1, RxSize) ELSE t.rx_q_len) \in 0..RxSize
  BY Sizes DEF SessionOK, Least
<1>4. SessionOK(q) /\ q.tx_q = t.tx_q
  BY <1>2, <1>3 DEF SessionOK, FramerOK, TxType
<1>. HIDE DEF q
<1>5. q.tx_q \in Seq(Bytes) /\ FramerOK(q.tx) /\ q.tx_leadin \in Nat /\ <<>> \in Seq(Bytes)
  BY <1>4, Sizes DEF SessionOK
<1>. DEFINE framer == out.tx
<1>6. FramerOK(framer) /\ queue \in Seq(Bytes) /\ Len(queue) <= Len(q.tx_q)
  <2>. DEFINE source == IF lead THEN <<>> ELSE q.tx_q
  <2>1. source \in Seq(Bytes)
    BY <1>5
  <2>2. FramerOK(out.tx) /\ out.queue \in Seq(Bytes) /\ Len(out.queue) <= Len(source)
    <3>. HIDE DEF source
    <3>1. /\ FramerOK(TxSample(q.tx, source).tx)
          /\ TxSample(q.tx, source).queue \in Seq(Bytes)
          /\ Len(TxSample(q.tx, source).queue) <= Len(source)
      BY <1>5, <2>1, SampleFacts
    <3>. QED BY <3>1 DEF source
  <2>. HIDE DEF out
  <2>3. Len(q.tx_q) \in Nat
    BY <1>5
  <2>. QED BY <1>5, <2>2, <2>3
<1>7. left \in 0..LeadIn /\ Len(queue) <= TxSize
  BY <1>4, <1>5, <1>6, Sizes DEF SessionOK
<1>8. after = [q EXCEPT !.tx = framer, !.tx_q = queue, !.tx_leadin = left]
  OBVIOUS
<1>. HIDE DEF framer, queue, left, after
<1>9. SessionOK(after) /\ after.tx_q = queue
  <2>1. framer \in TxType
    BY <1>6 DEF FramerOK
  <2>2. after.tx = framer /\ after.tx_q = queue
    BY <1>4, <1>8 DEF SessionOK
  <2>. QED BY <1>4, <1>6, <1>7, <1>8, <2>1, <2>2 DEF SessionOK
<1>. QED BY <1>1, <1>4, <1>6, <1>9

\* A break changes nothing that is queued (modem_fsk.c:439-441).
LEMMA BrokenOK ==
    ASSUME NEW t, SessionOK(t)
    PROVE  SessionOK(Broken(t)) /\ Broken(t).tx_q = t.tx_q
<1>1. CASE Broken(t) = t
  BY <1>1
<1>2. CASE Broken(t) = [t EXCEPT !.tx.break = TRUE, !.break_state = "active"]
  <2>1. TRUE \in BOOLEAN /\ FramerOK(t.tx)
    BY DEF SessionOK
  <2>. DEFINE x == [t.tx EXCEPT !.break = TRUE]
  <2>2. FramerOK(x)
    BY <2>1 DEF FramerOK, TxType
  <2>3. Broken(t) = [t EXCEPT !.tx = x, !.break_state = "active"]
    BY <1>2
  <2>. HIDE DEF x
  <2>4. x \in TxType
    BY <2>2 DEF FramerOK
  <2>5. Broken(t).tx = x /\ Broken(t).tx_q = t.tx_q
    BY <2>3 DEF SessionOK
  <2>. QED BY <2>2, <2>3, <2>4, <2>5 DEF SessionOK
<1>. QED BY <1>1, <1>2 DEF Broken

\* Queueing what there is room for (modem_fsk.c:461, 484).
LEMMA QueuedOK ==
    ASSUME NEW t, SessionOK(t), NEW bytes \in Seq(Bytes), Len(t.tx_q) + Len(bytes) <= TxSize
    PROVE  LET u == [t EXCEPT !.tx_q = @ \o bytes]
           IN  SessionOK(u) /\ Len(u.tx_q) = Len(t.tx_q) + Len(bytes)
<1>1. t.tx_q \in Seq(Bytes)
  BY DEF SessionOK
<1>2. t.tx_q \o bytes \in Seq(Bytes) /\ Len(t.tx_q \o bytes) = Len(t.tx_q) + Len(bytes)
  BY <1>1, ConcatProperties
<1>. DEFINE q == t.tx_q \o bytes
<1>. HIDE DEF q
<1>3. SessionOK([t EXCEPT !.tx_q = q]) /\ [t EXCEPT !.tx_q = q].tx_q = q
  BY <1>2 DEF SessionOK, FramerOK, q
<1>. QED BY <1>2, <1>3 DEF q

\* The invariant looks at nothing else of the state.
LEMMA NoMoveKeeps ==
    QueueInv /\ UNCHANGED <<opt, session, caller, peer, others>> => QueueInv'
BY DEF QueueInv, Place, Outside, SessionOK, BannerFirst, RoomIsThere, ClosedWhenIdle, session,
       sockets, header, dialling, caller, peer

\* The accept loop and the other sessions; a session that begins (modem_fsk.c:754-797).
LEMMA ServerKeeps == QueueInv /\ (Accept \/ Admit \/ OtherEnds) => QueueInv'
<1>. SUFFICES ASSUME QueueInv, Accept \/ Admit \/ OtherEnds PROVE QueueInv'
  OBVIOUS
<1>1. CASE Accept
  BY <1>1, NoMoveKeeps DEF Accept
<1>2. CASE Admit
  <2>1. /\ UNCHANGED <<opt, ready, room, data_open, header, todo, s, dialling, caller, peer>>
        /\ \/ at' = at /\ audio_open' = audio_open
           \/ at = "none" /\ at' = "start" /\ audio_open' = TRUE
        /\ others' = others \/ (others < MaxOthers /\ others' = others + 1)
    BY <1>2 DEF Admit
  <2>2. Place'
    BY <2>1 DEF QueueInv, Place, header, dialling
  <2>3. Outside'
    BY <2>1, Sizes DEF QueueInv, Outside, caller, peer
  <2>4. SessionOK(s)' /\ BannerFirst' /\ RoomIsThere' /\ ClosedWhenIdle'
    BY <2>1 DEF QueueInv, SessionOK, BannerFirst, RoomIsThere, ClosedWhenIdle, dialling
  <2>. QED BY <2>2, <2>3, <2>4 DEF QueueInv
<1>3. CASE OtherEnds
  <2>1. /\ UNCHANGED <<opt, session, caller, peer>>
        /\ others > 0 /\ others' = others - 1
    BY <1>3 DEF OtherEnds
  <2>2. Outside'
    BY <2>1, Sizes DEF QueueInv, Outside, caller, peer
  <2>3. Place' /\ SessionOK(s)' /\ BannerFirst' /\ RoomIsThere' /\ ClosedWhenIdle'
    BY <2>1 DEF QueueInv, Place, SessionOK, BannerFirst, RoomIsThere, ClosedWhenIdle, session,
                sockets, header, dialling
  <2>. QED BY <2>2, <2>3 DEF QueueInv
<1>. QED BY <1>1, <1>2, <1>3

\* Time, the caller and the data peer do not touch the queue to the line.
LEMMA OutsideKeeps ==
    QueueInv /\ (DelayPasses \/ PcmArrives \/ HangUp \/ PeerWrites \/ PeerCloses) => QueueInv'
<1>. SUFFICES ASSUME QueueInv, DelayPasses \/ PcmArrives \/ HangUp \/ PeerWrites \/ PeerCloses
              PROVE  QueueInv'
  OBVIOUS
<1>1. UNCHANGED <<opt, at, ready, room, audio_open, data_open, hdr, stage, todo, s,
                  carrier_seen, banner_sent, others>>
  BY DEF DelayPasses, PcmArrives, HangUp, PeerWrites, PeerCloses, session, sockets, header,
         dialling, server
<1>2. Place' /\ SessionOK(s)' /\ BannerFirst' /\ RoomIsThere' /\ ClosedWhenIdle'
  BY <1>1 DEF QueueInv, Place, SessionOK, BannerFirst, RoomIsThere, ClosedWhenIdle
<1>3. waiting' \in Seq(Bytes)
  <2>1. CASE PeerWrites
    <3>1. PICK byte \in PeerBytes : waiting' = Append(waiting, byte)
      BY <2>1 DEF PeerWrites
    <3>2. waiting \in Seq(Bytes) /\ byte \in Bytes
      BY <3>1, Sizes DEF QueueInv, Outside
    <3>. QED BY <3>1, <3>2, AppendProperties
  <2>2. CASE DelayPasses \/ PcmArrives \/ HangUp \/ PeerCloses
    BY <2>2 DEF QueueInv, Outside, DelayPasses, PcmArrives, HangUp, PeerCloses, peer
  <2>. QED BY <2>1, <2>2
<1>4. pcm' \in BOOLEAN /\ hung_up' \in BOOLEAN /\ peer_closed' \in BOOLEAN
  BY DEF QueueInv, Outside, DelayPasses, PcmArrives, HangUp, PeerWrites, PeerCloses, caller,
         peer
<1>5. Outside'
  BY <1>1, <1>3, <1>4 DEF QueueInv, Outside
<1>. QED BY <1>2, <1>5 DEF QueueInv

\* A session that is over: it is freed and uncounted (modem_fsk.c:548-552).
LEMMA UncountKeeps == QueueInv /\ Uncount => QueueInv'
<1>. SUFFICES ASSUME QueueInv, Uncount PROVE QueueInv'
  OBVIOUS
<1>. USE DEF QueueInv
<1>1. Place'
  <2>1. UNCHANGED <<audio_open, data_open>>
    BY DEF Uncount, sockets
  <2>2. /\ at' = "none" /\ ready' = {} /\ room' = 0 /\ hdr' = 0 /\ stage' = 0 /\ todo' = 0
        /\ banner_sent' = 0
    BY DEF Uncount
  <2>3. carrier_seen' \in BOOLEAN
    BY DEF Uncount
  <2>4. audio_open \in BOOLEAN /\ data_open \in BOOLEAN
    BY DEF Place
  <2>5. 0 \in 0..TxSize /\ 0 \in 0..HeaderLen /\ 0 \in 0..ReadBytes /\ 0 \in 0..BannerLen
    BY Sizes
  <2>. QED BY <2>1, <2>2, <2>3, <2>4, <2>5 DEF Place
<1>2. Outside'
  <2>1. waiting' \in Seq(Bytes)
    BY DEF Uncount
  <2>2. pcm' = FALSE /\ hung_up' = FALSE /\ peer_closed' = FALSE /\ others' = others
    BY DEF Uncount
  <2>. QED BY <2>1, <2>2 DEF Outside
<1>3. SessionOK(s)'
  BY StartOK DEF Uncount
<1>4. BannerFirst' /\ RoomIsThere' /\ ClosedWhenIdle'
  <2>1. at = "over" /\ data_open' = data_open /\ ready' = {}
    BY DEF Uncount, sockets
  <2>. QED BY <2>1 DEF BannerFirst, RoomIsThere, ClosedWhenIdle
<1>. QED BY <1>1, <1>2, <1>3, <1>4

\* Every way out of the loop closes both sockets (modem_fsk.c:548-549).
LEMMA OverFacts ==
    Over => at' = "over" /\ audio_open' \in BOOLEAN /\ ~data_open' /\ data_open' \in BOOLEAN
            /\ ready' = {}
BY DEF Over

\* Before the loop: a data peer only for a session without a banner (modem_fsk.c:522-533).
LEMMA StartKeeps == QueueInv /\ Start => QueueInv'
<1>. SUFFICES ASSUME QueueInv, Start PROVE QueueInv'
  OBVIOUS
<1>1. UNCHANGED <<opt, room, stage, todo, s, carrier_seen, banner_sent, pcm, hung_up, others>>
  BY DEF Start, dialling, caller, server
<1>2. hdr' \in 0..HeaderLen
  BY Sizes DEF Start
<1>3. /\ at' \in {"select", "over"} /\ audio_open' \in BOOLEAN /\ data_open' \in BOOLEAN
      /\ ready' \subseteq ready /\ (data_open' => ~opt.banner \/ data_open)
      /\ at' = "over" => ~data_open'
  <2>1. audio_open \in BOOLEAN /\ data_open \in BOOLEAN
    BY DEF QueueInv, Place
  <2>2. CASE at' = "select" /\ UNCHANGED <<sockets, ready>>
    BY <2>1, <2>2 DEF sockets
  <2>3. CASE ~opt.banner /\ Connect("select")
    <3>1. CASE Over
      BY <3>1, OverFacts
    <3>2. CASE at' = "select" /\ data_open' = TRUE /\ UNCHANGED <<audio_open, ready>>
      BY <2>1, <2>3, <3>2
    <3>. QED BY <2>3, <3>1, <3>2 DEF Connect
  <2>. QED BY <2>2, <2>3 DEF Start
<1>4. peer_closed' \in BOOLEAN /\ waiting' \in Seq(Bytes)
  <2>1. waiting \in Seq(Bytes) /\ peer_closed \in BOOLEAN
    BY DEF QueueInv, Outside
  <2>2. waiting' = waiting \/ waiting' = <<>>
    BY DEF Start, Connect
  <2>3. peer_closed' = FALSE \/ peer_closed' = peer_closed
    BY DEF Start, Connect
  <2>4. peer_closed' \in BOOLEAN
    BY <2>1, <2>3, Zenon
  <2>5. waiting' \in Seq(Bytes)
    <3>1. <<>> \in Seq(Bytes)
      OBVIOUS
    <3>. QED BY <2>1, <2>2, <3>1, Zenon
  <2>. QED BY <2>4, <2>5
<1>5. Place'
  BY <1>1, <1>2, <1>3 DEF QueueInv, Place
<1>6. Outside'
  BY <1>1, <1>4 DEF QueueInv, Outside
<1>7. SessionOK(s)' /\ BannerFirst' /\ RoomIsThere' /\ ClosedWhenIdle'
  BY <1>1, <1>3 DEF QueueInv, SessionOK, BannerFirst, RoomIsThere, ClosedWhenIdle
<1>. QED BY <1>5, <1>6, <1>7 DEF QueueInv

\* The room in tx_q is what is free there as select is called (modem_fsk.c:362).
LEMMA SelectKeeps == QueueInv /\ Select => QueueInv'
<1>. SUFFICES ASSUME QueueInv, Select PROVE QueueInv'
  OBVIOUS
<1>1. UNCHANGED <<opt, hdr, stage, todo, s, carrier_seen, banner_sent, pcm, hung_up, waiting,
                  peer_closed, others>>
  BY DEF Select, header, dialling, caller, peer, server
<1>2. Outside' /\ SessionOK(s)'
  BY <1>1 DEF QueueInv, Outside, SessionOK
<1>3. CASE audio_open
  <2>1. audio_open' \in BOOLEAN /\ data_open' = data_open /\ at' = "audio" /\ room' = TxRoom
    BY <1>3 DEF Select, sockets, QueueInv, Place
  <2>2. TxRoom \in 0..TxSize /\ Len(s.tx_q) + TxRoom <= TxSize
    <3>1. Len(s.tx_q) \in Nat /\ Len(s.tx_q) <= TxSize
      BY DEF QueueInv, SessionOK
    <3>. QED BY <3>1, Sizes DEF TxRoom
  <2>3. ready' \subseteq {"audio", "data", "write"} /\ ("data" \in ready' => data_open)
    <3>1. PICK write \in SUBSET (IF data_open /\ s.rx_q_len > 0 THEN {"write"} ELSE {}) :
              ready' = Readable \cup write
      BY <1>3 DEF Select
    <3>2. write \subseteq {"write"}
      BY <3>1
    <3>3. Readable \subseteq {"audio", "data"} /\ ("data" \in Readable => data_open)
      BY DEF Readable
    <3>. QED BY <3>1, <3>2, <3>3
  <2>4. Place'
    BY <1>1, <2>1, <2>2, <2>3 DEF QueueInv, Place
  <2>5. BannerFirst' /\ RoomIsThere' /\ ClosedWhenIdle'
    BY <1>1, <2>1, <2>2, <2>3 DEF QueueInv, BannerFirst, RoomIsThere, ClosedWhenIdle
  <2>. QED BY <1>2, <2>4, <2>5 DEF QueueInv
<1>4. CASE ~audio_open
  <2>1. Over /\ room' = room
    BY <1>4 DEF Select
  <2>2. Place' /\ BannerFirst' /\ RoomIsThere' /\ ClosedWhenIdle'
    BY <1>1, <2>1, OverFacts DEF QueueInv, Place, BannerFirst, RoomIsThere, ClosedWhenIdle
  <2>. QED BY <1>2, <2>2 DEF QueueInv
<1>. QED BY <1>3, <1>4

\* What a read leaves of the header, of a sample that is cut, and of samples to process
\* (consume_header; modem_fsk.c:394-414).
LEMMA HeaderFacts ==
    ASSUME hdr \in 0..HeaderLen, stage \in 0..1, NEW n \in 1..ReadBytes, NEW h \in HeaderTakes(n)
    PROVE  /\ h[2] \in 0..HeaderLen
           /\ (stage + n - h[1]) % 2 \in 0..1 /\ (stage + n - h[1]) \div 2 \in 0..ReadBytes
<1>1. h[1] \in 0..n /\ h[2] \in 0..HeaderLen
  <2>1. CASE hdr + n < Prefix
    <3>1. h = <<n, hdr + n>>
      BY <2>1 DEF HeaderTakes
    <3>. QED BY <2>1, <3>1, Sizes
  <2>2. CASE ~(hdr + n < Prefix)
    <3>1. \/ h = <<Least(n, HeaderLen - hdr), Least(hdr + n, HeaderLen)>>
          \/ hdr < Prefix /\ h = <<Prefix - hdr, HeaderLen>>
      BY <2>2 DEF HeaderTakes
    <3>2. Least(n, HeaderLen - hdr) \in 0..n /\ Least(hdr + n, HeaderLen) \in 0..HeaderLen
      BY Sizes DEF Least
    <3>. QED BY <2>2, <3>1, <3>2, Sizes
  <2>. QED BY <2>1, <2>2
<1>. DEFINE bytes == stage + n - h[1]
<1>2. bytes \in 0..(ReadBytes + 1)
  BY <1>1, Sizes
<1>. HIDE DEF bytes
<1>3. bytes % 2 \in 0..1 /\ bytes \div 2 \in 0..ReadBytes
  BY <1>2, Sizes
<1>. QED BY <1>1, <1>3 DEF bytes

\* A read of the audio connection (modem_fsk.c:387-416).
LEMMA AudioInKeeps == QueueInv /\ AudioIn => QueueInv'
<1>. SUFFICES ASSUME QueueInv, AudioIn PROVE QueueInv'
  OBVIOUS
<1>1. UNCHANGED <<opt, room, s, carrier_seen, banner_sent, hung_up, waiting, peer_closed, others>>
  BY DEF AudioIn, dialling, peer, server
<1>2. SessionOK(s)'
  BY <1>1 DEF QueueInv, SessionOK
<1>3. pcm' \in BOOLEAN /\ at = "audio"
  BY DEF AudioIn, QueueInv, Outside
<1>4. Outside'
  BY <1>1, <1>3 DEF QueueInv, Outside
<1>5. /\ \/ Over
         \/ at' \in {"samples", "line"} /\ UNCHANGED <<audio_open, data_open, ready>>
      /\ hdr' \in 0..HeaderLen /\ stage' \in 0..1 /\ todo' \in 0..ReadBytes
  <2>1. hdr \in 0..HeaderLen /\ stage \in 0..1 /\ todo \in 0..ReadBytes
    BY DEF QueueInv, Place
  <2>2. CASE UNCHANGED <<header, todo>>
             /\ (Over \/ (at' = "line" /\ UNCHANGED <<sockets, ready>>))
    BY <2>1, <2>2 DEF header, sockets
  <2>3. CASE \E n \in 1..ReadBytes :
                 /\ \E h \in HeaderTakes(n) :
                        LET bytes == stage + n - h[1]
                        IN  hdr' = h[2] /\ stage' = bytes % 2 /\ todo' = bytes \div 2
                 /\ at' = "samples" /\ UNCHANGED <<sockets, ready>>
    <3>1. PICK n \in 1..ReadBytes :
                 /\ \E h \in HeaderTakes(n) :
                        LET bytes == stage + n - h[1]
                        IN  hdr' = h[2] /\ stage' = bytes % 2 /\ todo' = bytes \div 2
                 /\ at' = "samples" /\ UNCHANGED <<sockets, ready>>
      BY <2>3
    <3>2. PICK h \in HeaderTakes(n) :
              /\ hdr' = h[2] /\ stage' = (stage + n - h[1]) % 2
              /\ todo' = (stage + n - h[1]) \div 2
      BY <3>1
    <3>. QED BY <2>1, <3>1, <3>2, HeaderFacts DEF sockets
  <2>. QED BY <2>2, <2>3 DEF AudioIn
<1>6. Place' /\ BannerFirst' /\ RoomIsThere' /\ ClosedWhenIdle'
  <2>1. CASE Over
    BY <1>1, <1>5, <2>1, OverFacts
       DEF QueueInv, Place, BannerFirst, RoomIsThere, ClosedWhenIdle
  <2>2. CASE at' \in {"samples", "line"} /\ UNCHANGED <<audio_open, data_open, ready>>
    BY <1>1, <1>3, <1>5, <2>2
       DEF QueueInv, Place, BannerFirst, RoomIsThere, ClosedWhenIdle
  <2>. QED BY <1>5, <2>1, <2>2
<1>. QED BY <1>2, <1>4, <1>6 DEF QueueInv

\* A sample: the queue to the line gets no longer while the room is kept
\* (modem_fsk.c:415).
LEMMA SampleKeeps == QueueInv /\ Sample => QueueInv'
<1>. SUFFICES ASSUME QueueInv, Sample PROVE QueueInv'
  OBVIOUS
<1>1. /\ UNCHANGED <<opt, at, ready, room, audio_open, data_open, hdr, stage, carrier_seen,
                     banner_sent, pcm, hung_up, waiting, peer_closed, others>>
      /\ todo > 0 /\ todo' = todo - 1
  BY DEF Sample, sockets, header, dialling, caller, peer, server
<1>2. SessionOK(s') /\ Len(s'.tx_q) <= Len(s.tx_q)
  <2>1. PICK byte \in BOOLEAN, level \in Levels :
            s' = ProcessSample(<<s, far>>, byte, level)[1]
    BY DEF Sample
  <2>2. level \in BOOLEAN /\ SessionOK(s)
    BY <2>1 DEF Levels, QueueInv
  <2>3. /\ SessionOK(ProcessSample(<<s, far>>, byte, level)[1])
        /\ Len(ProcessSample(<<s, far>>, byte, level)[1].tx_q) <= Len(s.tx_q)
    BY <2>2, SampledOK
  <2>. QED BY <2>1, <2>3
<1>3. Len(s.tx_q) \in Nat /\ Len(s'.tx_q) \in Nat /\ room \in Nat
  BY <1>2, Sizes DEF QueueInv, SessionOK, Place
<1>4. Place'
  BY <1>1, Sizes DEF QueueInv, Place
<1>5. Outside' /\ BannerFirst' /\ ClosedWhenIdle'
  BY <1>1 DEF QueueInv, Outside, BannerFirst, ClosedWhenIdle
<1>6. RoomIsThere'
  BY <1>1, <1>2, <1>3, Sizes DEF QueueInv, RoomIsThere
<1>. QED BY <1>2, <1>4, <1>5, <1>6 DEF QueueInv

\* The samples go out (modem_fsk.c:418-421).
LEMMA AudioOutKeeps == QueueInv /\ AudioOut => QueueInv'
<1>. SUFFICES ASSUME QueueInv, AudioOut PROVE QueueInv'
  OBVIOUS
<1>1. /\ UNCHANGED <<opt, ready, room, data_open, hdr, stage, todo, s, carrier_seen,
                     banner_sent, pcm, hung_up, waiting, peer_closed, others>>
      /\ at = "samples" /\ at' = "line" /\ audio_open' \in BOOLEAN
  BY DEF AudioOut, header, dialling, caller, peer, server
<1>2. Place'
  BY <1>1 DEF QueueInv, Place
<1>3. Outside' /\ SessionOK(s)' /\ BannerFirst' /\ RoomIsThere' /\ ClosedWhenIdle'
  BY <1>1 DEF QueueInv, Outside, SessionOK, BannerFirst, RoomIsThere, ClosedWhenIdle
<1>. QED BY <1>2, <1>3 DEF QueueInv

\* The banner is a sequence of bytes.
LEMMA BannerFacts == Banner \in Seq(Bytes) /\ Len(Banner) = BannerLen
<1>1. \A i \in 1..BannerLen : [bit \in 1..DataBits |-> bit % 2 = 0] \in Bytes
  BY DEF Bytes
<1>2. Banner \in [1..BannerLen -> Bytes]
  BY <1>1 DEF Banner
<1>. QED BY <1>2, Sizes

\* As much of the banner as there is room for (modem_fsk.c:455-462).
LEMMA BannerPart ==
    ASSUME QueueInv, NEW n,
           n = IF opt.banner /\ (~opt.wait_carrier \/ carrier_seen')
               THEN Least(BannerLen - banner_sent, TxRoom) ELSE 0
    PROVE  /\ n \in Nat /\ banner_sent + n <= BannerLen /\ Len(s.tx_q) + n <= TxSize
           /\ banner_sent = BannerLen => n = 0
           /\ ~opt.banner => n = 0
           /\ SubSeq(Banner, banner_sent + 1, banner_sent + n) \in Seq(Bytes)
           /\ Len(SubSeq(Banner, banner_sent + 1, banner_sent + n)) = n
<1>1. Len(s.tx_q) \in Nat /\ Len(s.tx_q) <= TxSize /\ banner_sent \in 0..BannerLen
  BY DEF QueueInv, SessionOK, Place
<1>2. /\ n \in Nat /\ banner_sent + n <= BannerLen /\ Len(s.tx_q) + n <= TxSize
      /\ banner_sent = BannerLen => n = 0
  <2>. DEFINE m == Least(BannerLen - banner_sent, TxRoom)
  <2>1. /\ m \in Nat /\ banner_sent + m <= BannerLen /\ Len(s.tx_q) + m <= TxSize
        /\ banner_sent = BannerLen => m = 0
    <3>1. TxRoom \in Nat /\ Len(s.tx_q) + TxRoom = TxSize
      BY <1>1, Sizes DEF TxRoom
    <3>2. BannerLen - banner_sent \in Nat
      BY <1>1, Sizes
    <3>3. m \in {BannerLen - banner_sent, TxRoom} /\ m <= BannerLen - banner_sent /\ m <= TxRoom
      BY <3>1, <3>2, LeastFacts
    <3>. HIDE DEF m
    <3>. QED BY <1>1, <3>1, <3>2, <3>3, Sizes
  <2>. HIDE DEF m
  <2>2. n = m \/ n = 0
    BY DEF m
  <2>. QED BY <1>1, <2>1, <2>2, Sizes
<1>3. SubSeq(Banner, banner_sent + 1, banner_sent + n) \in Seq(Bytes)
      /\ Len(SubSeq(Banner, banner_sent + 1, banner_sent + n)) = n
  BY <1>1, <1>2, BannerFacts, PartFacts
<1>. QED BY <1>2, <1>3

\* What follows on the carrier, and the banner: it fills the queue no further than there
\* is room, and adds nothing once a data peer is connected (modem_fsk.c:428-468).
LEMMA BannerKeeps == QueueInv /\ CarrierAndBanner => QueueInv'
<1>. SUFFICES ASSUME QueueInv, CarrierAndBanner PROVE QueueInv'
  OBVIOUS
<1>. DEFINE n == IF opt.banner /\ (~opt.wait_carrier \/ carrier_seen')
                 THEN Least(BannerLen - banner_sent, TxRoom) ELSE 0
            t == Broken(s)
            part == SubSeq(Banner, banner_sent + 1, banner_sent + n)
<1>1. /\ UNCHANGED <<opt, ready, room, audio_open, data_open, hdr, stage, todo, pcm, hung_up,
                     waiting, peer_closed, others>>
      /\ at = "line" /\ at' = "dial"
  BY DEF CarrierAndBanner, sockets, header, caller, peer, server
<1>2. s' = [t EXCEPT !.tx_q = @ \o part] /\ banner_sent' = banner_sent + n
  BY DEF CarrierAndBanner, Queue
<1>3. carrier_seen' \in BOOLEAN
  BY DEF CarrierAndBanner, OnCarrier
<1>4. Len(s.tx_q) \in Nat /\ Len(s.tx_q) <= TxSize /\ banner_sent \in 0..BannerLen
  BY DEF QueueInv, SessionOK, Place
<1>5. /\ n \in Nat /\ banner_sent + n <= BannerLen /\ Len(s.tx_q) + n <= TxSize
      /\ banner_sent = BannerLen => n = 0
      /\ ~opt.banner => n = 0
      /\ part \in Seq(Bytes) /\ Len(part) = n
  BY BannerPart
<1>. HIDE DEF n
<1>6. SessionOK(t) /\ t.tx_q = s.tx_q
  BY BrokenOK DEF QueueInv
<1>. HIDE DEF t, part
<1>7. SessionOK(s') /\ Len(s'.tx_q) = Len(s.tx_q) + n
  BY <1>2, <1>5, <1>6, QueuedOK
<1>8. Place'
  <2>1. banner_sent' \in 0..BannerLen
    BY <1>2, <1>4, <1>5, Sizes, SMTT(30)
  <2>. QED BY <1>1, <1>3, <2>1 DEF QueueInv, Place
<1>9. Outside' /\ BannerFirst' /\ ClosedWhenIdle'
  BY <1>1, <1>2, <1>4, <1>5, Sizes DEF QueueInv, Outside, BannerFirst, ClosedWhenIdle
<1>10. RoomIsThere'
  <2>1. "data" \in ready => n = 0
    BY <1>5 DEF QueueInv, BannerFirst
  <2>. QED BY <1>1, <1>4, <1>7, <2>1 DEF QueueInv, RoomIsThere
<1>. QED BY <1>7, <1>8, <1>9, <1>10 DEF QueueInv

\* A data peer is dialled when the banner has gone (modem_fsk.c:472-480).
LEMMA DialKeeps == QueueInv /\ Dial => QueueInv'
<1>. SUFFICES ASSUME QueueInv, Dial PROVE QueueInv'
  OBVIOUS
<1>1. UNCHANGED <<opt, room, hdr, stage, todo, s, carrier_seen, banner_sent, pcm, hung_up, others>>
  BY DEF Dial, header, dialling, caller, server
<1>2. at = "dial" /\ audio_open \in BOOLEAN /\ data_open \in BOOLEAN
      /\ waiting \in Seq(Bytes) /\ peer_closed \in BOOLEAN /\ banner_sent \in 0..BannerLen
  BY DEF Dial, QueueInv, Place, Outside
<1>3. /\ waiting' = waiting \/ waiting' = <<>>
      /\ peer_closed' = FALSE \/ peer_closed' = peer_closed
  BY DEF Dial, Connect
<1>4. Outside'
  <2>1. peer_closed' \in BOOLEAN
    BY <1>2, <1>3, Zenon
  <2>2. waiting' \in Seq(Bytes)
    <3>1. <<>> \in Seq(Bytes)
      OBVIOUS
    <3>. QED BY <1>2, <1>3, <3>1, Zenon
  <2>. QED BY <1>1, <2>1, <2>2 DEF QueueInv, Outside
<1>5. SessionOK(s)'
  BY <1>1 DEF QueueInv, SessionOK
<1>6. CASE Over
  BY <1>1, <1>4, <1>5, <1>6, OverFacts
     DEF QueueInv, Place, BannerFirst, RoomIsThere, ClosedWhenIdle
<1>7. CASE Due /\ at' = "dataIn" /\ data_open' = TRUE /\ UNCHANGED <<audio_open, ready>>
  <2>1. data_open' \in BOOLEAN
    BY <1>7
  <2>2. opt.banner => banner_sent = BannerLen
    BY <1>2, <1>7, Sizes DEF Due, BannerDone
  <2>3. Place'
    BY <1>1, <1>2, <1>7, <2>1 DEF QueueInv, Place
  <2>4. BannerFirst' /\ RoomIsThere' /\ ClosedWhenIdle'
    BY <1>1, <1>2, <1>7, <2>2 DEF QueueInv, BannerFirst, RoomIsThere, ClosedWhenIdle
  <2>. QED BY <1>4, <1>5, <2>3, <2>4 DEF QueueInv
<1>8. CASE at' = "dataIn" /\ UNCHANGED <<audio_open, data_open, ready>>
  <2>1. Place'
    BY <1>1, <1>2, <1>8 DEF QueueInv, Place
  <2>2. BannerFirst' /\ RoomIsThere' /\ ClosedWhenIdle'
    BY <1>1, <1>2, <1>8 DEF QueueInv, BannerFirst, RoomIsThere, ClosedWhenIdle
  <2>. QED BY <1>4, <1>5, <2>1, <2>2 DEF QueueInv
<1>. QED BY <1>6, <1>7, <1>8 DEF Dial, Connect, sockets

\* What the data peer wrote, up to the room seen before select: the queue stays within
\* its array (modem_fsk.c:483-494).
LEMMA DataInKeeps == QueueInv /\ DataIn => QueueInv'
<1>. SUFFICES ASSUME QueueInv, DataIn PROVE QueueInv'
  OBVIOUS
<1>1. /\ UNCHANGED <<opt, ready, room, audio_open, hdr, stage, todo, carrier_seen, banner_sent,
                     pcm, hung_up, peer_closed, others>>
      /\ at = "dataIn" /\ at' = "dataOut"
  BY DEF DataIn, header, dialling, caller, server
<1>2. /\ waiting \in Seq(Bytes) /\ Len(waiting) \in Nat /\ Len(s.tx_q) \in Nat /\ room \in Nat
      /\ data_open \in BOOLEAN
  BY Sizes DEF QueueInv, Outside, SessionOK, Place
<1>3. /\ SessionOK(s)' /\ waiting' \in Seq(Bytes)
      /\ data_open' \in BOOLEAN /\ (data_open' => data_open)
  <2>1. CASE /\ "data" \in ready
             /\ \E n \in 1..Least(Len(waiting), room) :
                    /\ Queue(s, SubSeq(waiting, 1, n))
                    /\ waiting' = SubSeq(waiting, n + 1, Len(waiting))
             /\ UNCHANGED data_open
    <3>1. PICK n \in 1..Least(Len(waiting), room) :
                    /\ s' = [s EXCEPT !.tx_q = @ \o SubSeq(waiting, 1, n)]
                    /\ waiting' = SubSeq(waiting, n + 1, Len(waiting))
      BY <2>1 DEF Queue
    <3>2. n \in Nat \ {0} /\ n <= Len(waiting) /\ n <= room
      BY <1>2, LeastFacts
    <3>3. Len(s.tx_q) + room <= TxSize
      BY <1>1, <2>1 DEF QueueInv, RoomIsThere
    <3>. DEFINE part == SubSeq(waiting, 1, n)
    <3>4. part \in Seq(Bytes) /\ Len(part) = n
      BY <1>2, <3>2, PartFacts
    <3>5. waiting' \in Seq(Bytes)
      BY <1>2, <3>1, <3>2, PartFacts
    <3>. HIDE DEF part
    <3>6. Len(s.tx_q) + Len(part) <= TxSize
      BY <1>2, <3>2, <3>3, <3>4, Sizes
    <3>7. SessionOK(s')
      BY <3>1, <3>4, <3>6, QueuedOK DEF QueueInv, part
    <3>. QED BY <1>2, <2>1, <3>5, <3>7
  <2>2. CASE UNCHANGED <<s, waiting>> /\ (data_open' = FALSE \/ data_open' = data_open)
    <3>1. data_open' \in BOOLEAN /\ (data_open' => data_open)
      <4>1. CASE data_open' = FALSE
        BY <4>1
      <4>2. CASE data_open' = data_open
        BY <1>2, <4>2
      <4>. QED BY <2>2, <4>1, <4>2
    <3>. QED BY <1>2, <2>2, <3>1 DEF QueueInv, SessionOK
  <2>. QED BY <2>1, <2>2 DEF DataIn
<1>4. Place'
  BY <1>1, <1>3 DEF QueueInv, Place
<1>5. Outside' /\ BannerFirst' /\ RoomIsThere' /\ ClosedWhenIdle'
  BY <1>1, <1>3 DEF QueueInv, Outside, BannerFirst, RoomIsThere, ClosedWhenIdle
<1>. QED BY <1>3, <1>4, <1>5 DEF QueueInv

\* What the peer takes leaves the queue shorter (modem_fsk.c:497-506).
LEMMA DataOutKeeps == QueueInv /\ DataOut => QueueInv'
<1>. SUFFICES ASSUME QueueInv, DataOut PROVE QueueInv'
  OBVIOUS
<1>1. /\ UNCHANGED <<opt, audio_open, hdr, stage, todo, carrier_seen, banner_sent, pcm, hung_up,
                     peer_closed, others>>
      /\ at' = "select" /\ ready' = {} /\ room' = 0
  BY DEF DataOut, header, dialling, caller, server
<1>2. waiting \in Seq(Bytes) /\ data_open \in BOOLEAN /\ <<>> \in Seq(Bytes)
  BY DEF QueueInv, Outside, Place
<1>3. SessionOK(s)'
  <2>1. CASE \E left \in 0..(s.rx_q_len - 1) : s' = [s EXCEPT !.rx_q_len = left]
    <3>1. PICK left \in 0..(s.rx_q_len - 1) : s' = [s EXCEPT !.rx_q_len = left]
      BY <2>1
    <3>2. left \in 0..RxSize
      BY Sizes DEF QueueInv, SessionOK
    <3>. QED BY <3>1, <3>2 DEF QueueInv, SessionOK
  <2>2. CASE s' = s
    BY <2>2 DEF QueueInv, SessionOK
  <2>. QED BY <2>1, <2>2 DEF DataOut
<1>4. /\ data_open' = FALSE \/ data_open' = data_open
      /\ waiting' = waiting \/ waiting' = <<>>
  BY DEF DataOut
<1>5. data_open' \in BOOLEAN /\ (data_open' => data_open) /\ waiting' \in Seq(Bytes)
  <2>1. waiting' \in Seq(Bytes)
    BY <1>2, <1>4, Zenon
  <2>2. CASE data_open' = FALSE
    BY <2>1, <2>2
  <2>3. CASE data_open' = data_open
    BY <1>2, <2>1, <2>3
  <2>. QED BY <1>4, <2>2, <2>3
<1>6. 0 \in 0..TxSize
  BY Sizes
<1>7. Place'
  BY <1>1, <1>5, <1>6 DEF QueueInv, Place
<1>8. Outside' /\ BannerFirst' /\ RoomIsThere' /\ ClosedWhenIdle'
  BY <1>1, <1>5 DEF QueueInv, Outside, BannerFirst, RoomIsThere, ClosedWhenIdle
<1>. QED BY <1>3, <1>7, <1>8 DEF QueueInv

\* No session, nothing queued.
LEMMA QueueInit == Init => QueueInv
<1>. SUFFICES ASSUME Init PROVE QueueInv
  OBVIOUS
<1>1. audio_open \in BOOLEAN /\ data_open \in BOOLEAN /\ carrier_seen \in BOOLEAN
      /\ pcm \in BOOLEAN /\ hung_up \in BOOLEAN /\ peer_closed \in BOOLEAN
  BY DEF Init
<1>2. /\ at = "none" /\ ready = {} /\ room = 0 /\ hdr = 0 /\ stage = 0 /\ todo = 0
      /\ banner_sent = 0 /\ others = 0 /\ s = SessionStart /\ waiting = <<>>
  BY DEF Init
<1>3. /\ 0 \in 0..TxSize /\ 0 \in 0..HeaderLen /\ 0 \in 0..ReadBytes /\ 0 \in 0..BannerLen
      /\ 0 \in 0..MaxOthers
  BY Sizes
<1>4. Place
  BY <1>1, <1>2, <1>3 DEF Place
<1>5. Outside
  BY <1>1, <1>2, <1>3 DEF Outside
<1>6. SessionOK(s)
  BY <1>2, StartOK
<1>7. ~data_open
  BY DEF Init
<1>8. BannerFirst /\ RoomIsThere /\ ClosedWhenIdle
  BY <1>2, <1>7 DEF BannerFirst, RoomIsThere, ClosedWhenIdle
<1>. QED BY <1>4, <1>5, <1>6, <1>8 DEF QueueInv

\* Every step keeps the queues within their arrays.
LEMMA QueueKeeps == QueueInv /\ [Next]_vars => QueueInv'
<1>. SUFFICES ASSUME QueueInv, [Next]_vars PROVE QueueInv'
  OBVIOUS
<1>1. CASE Accept \/ Admit \/ OtherEnds
  BY <1>1, ServerKeeps
<1>2. CASE Start
  BY <1>2, StartKeeps
<1>3. CASE Select
  BY <1>3, SelectKeeps
<1>4. CASE AudioIn
  BY <1>4, AudioInKeeps
<1>5. CASE Sample
  BY <1>5, SampleKeeps
<1>6. CASE AudioOut
  BY <1>6, AudioOutKeeps
<1>7. CASE CarrierAndBanner
  BY <1>7, BannerKeeps
<1>8. CASE Dial
  BY <1>8, DialKeeps
<1>9. CASE DataIn
  BY <1>9, DataInKeeps
<1>10. CASE DataOut
  BY <1>10, DataOutKeeps
<1>11. CASE Uncount
  BY <1>11, UncountKeeps
<1>12. CASE DelayPasses \/ PcmArrives \/ HangUp \/ PeerWrites \/ PeerCloses
  BY <1>12, OutsideKeeps
<1>13. CASE UNCHANGED vars
  BY <1>13, NoMoveKeeps DEF vars, server
<1>. QED BY <1>1, <1>2, <1>3, <1>4, <1>5, <1>6, <1>7, <1>8, <1>9, <1>10, <1>11, <1>12,
            <1>13 DEF Next, Loop

\* The queues of a session stay within their arrays, tx_q although what goes in is sized
\* by a room that was computed before select, and the header, the reads and the banner
\* within theirs.
THEOREM SessionTypes == Spec => []TypeOK
<1>1. QueueInv /\ [Next]_vars => QueueInv'
  BY QueueKeeps
<1>2. CountMatches /\ QueueInv => TypeOK
  <2>. SUFFICES ASSUME CountMatches, QueueInv PROVE TypeOK
    OBVIOUS
  <2>1. /\ Len(s.tx_q) <= TxSize /\ s.rx_q_len \in 0..RxSize /\ s.tx_leadin \in 0..LeadIn
    BY DEF QueueInv, SessionOK
  <2>2. count \in Nat /\ others \in 0..MaxOthers
    BY Sizes DEF CountMatches, QueueInv, Outside
  <2>3. {audio_open, data_open, pcm, hung_up, peer_closed, carrier_seen} \subseteq BOOLEAN
    BY DEF QueueInv, Place, Outside
  <2>. QED BY <2>1, <2>2, <2>3 DEF TypeOK, QueueInv, Place
<1>. QED BY QueueInit, SessionCap, <1>1, <1>2, PTL DEF Spec

-----------------------------------------------------------------------------
(* The far end. *)

\* The sample of a bit at which the deframer reads it, counted from 0 (fsk.c:393).
Half == BitSamples - BitSamples \div 2

\* The bit behind bit i of a part of a frame (fsk.c:234-274).
NextKind(k, i) ==
    IF k = "start" \/ (k = "data" /\ i + 1 < DataBits) THEN "data"
    ELSE IF k = "data" /\ Parity # "N" THEN "parity"
    ELSE IF k \in {"data", "parity"} \/ (k = "stop" /\ i + 1 < StopBits) THEN "stop"
    ELSE "idle"
NextIndex(k, i) ==
    IF (k = "data" /\ i + 1 < DataBits) \/ (k = "stop" /\ i + 1 < StopBits) THEN i + 1 ELSE 0

Tone(byte, k, i) ==
    IF k = "start" THEN FALSE
    ELSE IF k = "data" THEN byte[i + 1]
    ELSE IF k = "parity" THEN ParityBit(byte)
    ELSE TRUE

InFrame(k, i) ==
    /\ k = "data" => i < DataBits
    /\ k = "stop" => i < StopBits
    /\ k \in {"start", "parity"} => i = 0

\* A framer without a break sends the tone of its bit.
Sends(t) ==
    /\ FramerOK(t) /\ ~t.break /\ t.phase \in 0..(BitSamples - 1)
    /\ InFrame(t.state, t.index) /\ t.tone = Tone(t.byte, t.state, t.index)

FarType == [state: {"idleMark", "startValidate", "data", "parity", "stop"}, bits: Seq(BOOLEAN),
            stop: Nat, phase: Nat, warm: 0..RxWindow, streak: Nat, carrier: BOOLEAN]

\* A far end that has made no error.
FarEnd == [rx: FarType, owed: Seq(Bytes), garbled: {FALSE}]

\* A deframer between frames, and one that waits for bit i of a part of a frame.
Idle(r) == r.state = "idleMark" /\ r.stop = 0
Waits(r, byte, k, i) ==
    /\ r.state = IF k = "start" THEN "startValidate" ELSE k
    /\ k = "data" => Len(r.bits) = i /\ \A j \in 1..i : r.bits[j] = byte[j]
    /\ k \in {"parity", "stop"} => r.bits = byte
    /\ r.stop = IF k = "stop" THEN i ELSE 0

\* The deframer when p samples of bit i are sent: up to the middle it waits for this bit,
\* then for the next, and its clock tells how far it is off.
At(r, byte, k, i, p) ==
    IF k = "idle" \/ (k = "start" /\ p = 0) THEN Idle(r)
    ELSE IF p <= Half THEN Waits(r, byte, k, i) /\ r.phase = BitSamples \div 2 - 1 + p
    ELSE IF NextKind(k, i) = "idle" THEN Idle(r)
    ELSE Waits(r, byte, NextKind(k, i), NextIndex(k, i)) /\ r.phase = p - Half - 1

\* What a far end has not read yet of what is being sent and what is queued behind it.
Unread(t, queue) ==
    IF t.state = "idle" \/ (t.state = "stop" /\ t.index + 1 >= StopBits /\ t.phase > Half)
    THEN queue ELSE <<t.byte>> \o queue

\* Up to a break the far end is in step with the framer, is owed just that, and has seen as
\* much of the mark as its window is long before the lead-in is over.
InStep(t, f) ==
    /\ t.break_state = "idle" =>
          /\ Sends(t.tx) /\ f \in FarEnd
          /\ At(f.rx, t.tx.byte, t.tx.state, t.tx.index, t.tx.phase)
          /\ f.owed = Unread(t.tx, t.tx_q)
          /\ t.tx_leadin > 0 => t.tx.state = "idle"
          /\ f.rx.warm + t.tx_leadin >= RxWindow
    /\ t.break_state # "idle" => f = FarStart

InStepInv == InStep(s, far)

\* Half a bit is at least a sample, and not all of them.
LEMMA HalfFacts ==
    /\ BitSamples \div 2 \in Nat /\ BitSamples \div 2 > 0
    /\ Half \in Nat /\ Half > 0 /\ BitSamples \div 2 + Half = BitSamples
    /\ StopBits \in Nat /\ StopBits > 0 /\ RxWindow \in Nat /\ RxWindow > 0
BY Sizes, FramingAssumption DEF Half

\* The counters of the bit clock, when it ticks and when it does not (fsk.c:67-74).
LEMMA ClockFacts ==
    ASSUME NEW p \in Nat, p < BitSamples
    PROVE  /\ p + 1 < BitSamples => ~Ticks(p) /\ Tick(p) = p + 1
           /\ p + 1 = BitSamples => Ticks(p) /\ Tick(p) = 0
BY Sizes DEF Ticks, Tick

\* Two deframers that differ in their carrier detection and in how full the window is.
Alike(x, r) ==
    x.state = r.state /\ x.bits = r.bits /\ x.stop = r.stop /\ x.phase = r.phase

\* A deframer whose window, streak or carrier is set.
LEMMA FarSet ==
    ASSUME NEW r \in FarType
    PROVE  /\ \A n \in 0..RxWindow : /\ [r EXCEPT !.warm = n] \in FarType
                                     /\ Alike([r EXCEPT !.warm = n], r)
                                     /\ [r EXCEPT !.warm = n].warm = n
           /\ \A n \in Nat : /\ [r EXCEPT !.streak = n] \in FarType
                             /\ Alike([r EXCEPT !.streak = n], r)
                             /\ [r EXCEPT !.streak = n].warm = r.warm
           /\ \A n \in Nat, here \in BOOLEAN :
                 /\ [r EXCEPT !.streak = n, !.carrier = here] \in FarType
                 /\ Alike([r EXCEPT !.streak = n, !.carrier = here], r)
                 /\ [r EXCEPT !.streak = n, !.carrier = here].warm = r.warm
<1>1. ASSUME NEW n \in 0..RxWindow
      PROVE  /\ [r EXCEPT !.warm = n] \in FarType /\ Alike([r EXCEPT !.warm = n], r)
             /\ [r EXCEPT !.warm = n].warm = n
  BY DEF FarType, Alike
<1>2. ASSUME NEW n \in Nat
      PROVE  /\ [r EXCEPT !.streak = n] \in FarType /\ Alike([r EXCEPT !.streak = n], r)
             /\ [r EXCEPT !.streak = n].warm = r.warm
  BY DEF FarType, Alike
<1>3. ASSUME NEW n \in Nat, NEW here \in BOOLEAN, NEW x,
             x = [r EXCEPT !.streak = n, !.carrier = here]
      PROVE  x \in FarType /\ Alike(x, r) /\ x.warm = r.warm
  <2>1. x \in FarType
    BY <1>3 DEF FarType
  <2>2. x.state = r.state /\ x.bits = r.bits /\ x.stop = r.stop
        /\ x.phase = r.phase /\ x.warm = r.warm
    BY <1>3 DEF FarType
  <2>. QED BY <2>1, <2>2 DEF Alike
<1>. QED BY <1>1, <1>2, <1>3, Zenon

\* Carrier detection moves nothing the deframer goes by (fsk.c:355-379).
LEMMA FarSense ==
    ASSUME NEW r \in FarType
    PROVE  LET x == SenseCarrier([r EXCEPT !.warm = RxWindow], TRUE)
           IN  x \in FarType /\ x.warm = RxWindow /\ Alike(x, r)
<1>. DEFINE w == [r EXCEPT !.warm = RxWindow]
            x == SenseCarrier(w, TRUE)
<1>1. w \in FarType /\ w.warm = RxWindow /\ Alike(w, r)
  <2>1. RxWindow \in 0..RxWindow
    BY HalfFacts
  <2>. QED BY <2>1, FarSet, Zenon
<1>. HIDE DEF w
<1>2. w.streak \in Nat /\ w.streak + 1 \in Nat /\ 0 \in Nat /\ TRUE \in BOOLEAN
  BY <1>1 DEF FarType
<1>3. \/ x = [w EXCEPT !.streak = 0]
      \/ x = [w EXCEPT !.streak = @ + 1]
      \/ x = [w EXCEPT !.streak = 0, !.carrier = TRUE]
  BY DEF SenseCarrier
<1>. HIDE DEF x
<1>4. x \in FarType /\ x.warm = w.warm /\ Alike(x, w)
  <2>1. CASE x = [w EXCEPT !.streak = 0]
    BY <1>1, <1>2, <2>1, FarSet
  <2>2. CASE x = [w EXCEPT !.streak = @ + 1]
    <3>1. x = [w EXCEPT !.streak = w.streak + 1]
      BY <2>2
    <3>. QED BY <1>1, <1>2, <3>1, FarSet
  <2>3. CASE x = [w EXCEPT !.streak = 0, !.carrier = TRUE]
    BY <1>1, <1>2, <2>3, FarSet, Zenon
  <2>. QED BY <1>3, <2>1, <2>2, <2>3
<1>5. Alike(x, r)
  BY <1>1, <1>4 DEF Alike
<1>. QED BY <1>1, <1>4, <1>5 DEF w, x

\* A sample heard with the window full (fsk.c:381-401).
LEMMA FarHearing ==
    ASSUME NEW r \in FarType, r.warm + 1 >= RxWindow, NEW bit
    PROVE  \E x \in FarType :
              /\ x.warm = RxWindow /\ Alike(x, r)
              /\ x.state = "idleMark" /\ bit => RxSample(r, TRUE, bit) = <<x, NoByte>>
              /\ x.state = "idleMark" /\ ~bit =>
                    RxSample(r, TRUE, bit) =
                        <<[x EXCEPT !.state = "startValidate", !.phase = BitSamples \div 2], NoByte>>
              /\ x.state # "idleMark" /\ ~Ticks(x.phase) =>
                    RxSample(r, TRUE, bit) = <<[x EXCEPT !.phase = Tick(@)], NoByte>>
              /\ x.state # "idleMark" /\ Ticks(x.phase) =>
                    RxSample(r, TRUE, bit) = RxBit([x EXCEPT !.phase = Tick(@)], bit)
<1>. DEFINE x == SenseCarrier([r EXCEPT !.warm = RxWindow], TRUE)
<1>1. x \in FarType /\ x.warm = RxWindow /\ Alike(x, r)
  BY FarSense, Zenon
<1>2. ~(r.warm + 1 < RxWindow)
  BY HalfFacts DEF FarType
<1>3. RxSample(r, TRUE, bit) =
        CASE x.state = "idleMark" /\ bit  -> <<x, NoByte>>
          [] x.state = "idleMark" /\ ~bit ->
               <<[x EXCEPT !.state = "startValidate", !.phase = BitSamples \div 2], NoByte>>
          [] x.state # "idleMark" /\ ~Ticks(x.phase) -> <<[x EXCEPT !.phase = Tick(@)], NoByte>>
          [] x.state # "idleMark" /\ Ticks(x.phase) -> RxBit([x EXCEPT !.phase = Tick(@)], bit)
  BY <1>2, Zenon DEF RxSample
<1>. HIDE DEF x
<1>4. x.state = "idleMark" /\ bit => RxSample(r, TRUE, bit) = <<x, NoByte>>
  BY <1>3
<1>5. x.state = "idleMark" /\ ~bit =>
          RxSample(r, TRUE, bit) =
              <<[x EXCEPT !.state = "startValidate", !.phase = BitSamples \div 2], NoByte>>
  BY <1>3
<1>6. x.state # "idleMark" /\ ~Ticks(x.phase) =>
          RxSample(r, TRUE, bit) = <<[x EXCEPT !.phase = Tick(@)], NoByte>>
  BY <1>3
<1>7. x.state # "idleMark" /\ Ticks(x.phase) =>
          RxSample(r, TRUE, bit) = RxBit([x EXCEPT !.phase = Tick(@)], bit)
  BY <1>3
<1>. QED BY <1>1, <1>4, <1>5, <1>6, <1>7

\* The count of its stop bits.
LEMMA FarStop ==
    ASSUME NEW r \in FarType, NEW n \in Nat, NEW y, y = [r EXCEPT !.stop = n]
    PROVE  /\ y \in FarType /\ y.warm = r.warm /\ y.phase = r.phase
           /\ y.bits = r.bits /\ y.state = r.state /\ y.stop = n
<1>1. y \in FarType
  BY DEF FarType
<1>2. /\ y.warm = r.warm /\ y.phase = r.phase
      /\ y.bits = r.bits /\ y.state = r.state /\ y.stop = n
  BY DEF FarType
<1>. QED BY <1>1, <1>2

\* Its bit clock.
LEMMA FarClock ==
    ASSUME NEW r \in FarType, NEW n \in Nat, NEW y, y = [r EXCEPT !.phase = n]
    PROVE  /\ y \in FarType /\ y.warm = r.warm /\ y.phase = n
           /\ y.bits = r.bits /\ y.state = r.state /\ y.stop = r.stop
<1>1. y \in FarType
  BY DEF FarType
<1>2. /\ y.warm = r.warm /\ y.phase = n
      /\ y.bits = r.bits /\ y.state = r.state /\ y.stop = r.stop
  BY DEF FarType
<1>. QED BY <1>1, <1>2

\* Back between frames (fsk.c:451-458).
LEMMA FarIdle ==
    ASSUME NEW r \in FarType
    PROVE  RxIdle(r) \in FarType /\ RxIdle(r).warm = r.warm /\ Idle(RxIdle(r))
<1>1. ASSUME NEW b \in Seq(BOOLEAN), NEW n \in Nat, NEW p \in Nat, NEW y,
             y = [r EXCEPT !.state = "idleMark", !.bits = b, !.stop = n, !.phase = p]
      PROVE  y \in FarType
  BY <1>1 DEF FarType
<1>2. <<>> \in Seq(BOOLEAN) /\ 0 \in Nat
  OBVIOUS
<1>3. RxIdle(r) \in FarType
  BY <1>1, <1>2, Zenon DEF RxIdle
<1>4. RxIdle(r).warm = r.warm /\ RxIdle(r).state = "idleMark" /\ RxIdle(r).stop = 0
  BY DEF FarType, RxIdle
<1>. QED BY <1>3, <1>4 DEF Idle

\* A bit read in its middle leaves the deframer waiting for the next; with the last stop
\* bit the byte is complete (fsk.c:403-461).
ReadBit(x, byte, k, i, h) ==
    /\ h[1] \in FarType /\ h[1].warm = x.warm
    /\ NextKind(k, i) # "idle" =>
          /\ Waits(h[1], byte, NextKind(k, i), NextIndex(k, i))
          /\ h[1].phase = x.phase /\ h[2] = NoByte
    /\ NextKind(k, i) = "idle" => Idle(h[1]) /\ h[2] = byte

\* A bit that is not the last of its frame.
LEMMA BitRead ==
    ASSUME NEW x, NEW byte, NEW k, NEW i, NEW y \in FarType, y.warm = x.warm,
           NextKind(k, i) # "idle", Waits(y, byte, NextKind(k, i), NextIndex(k, i)),
           y.phase = x.phase, NEW h, h = <<y, NoByte>>
    PROVE  ReadBit(x, byte, k, i, h)
<1>1. h[1] = y /\ h[2] = NoByte
  OBVIOUS
<1>. QED BY <1>1 DEF ReadBit

\* The start bit is space (fsk.c:403-416).
LEMMA FarReadsStart ==
    ASSUME NEW x \in FarType, NEW byte \in Bytes, NEW i \in Nat, Waits(x, byte, "start", i)
    PROVE  ReadBit(x, byte, "start", i, RxBit(x, FALSE))
<1>. DEFINE none == <<>>
            y == [x EXCEPT !.state = "data", !.bits = none]
<1>1. RxBit(x, FALSE) = <<y, NoByte>>
  BY DEF RxBit, Waits
<1>2. NextKind("start", i) = "data" /\ NextIndex("start", i) = 0
  BY DEF NextKind, NextIndex
<1>3. none \in Seq(BOOLEAN) /\ Len(none) = 0
  OBVIOUS
<1>4. y = [x EXCEPT !.state = "data", !.bits = none]
  OBVIOUS
<1>. HIDE DEF y, none
<1>5. /\ y \in FarType /\ y.warm = x.warm /\ y.phase = x.phase /\ y.bits = none
      /\ y.state = "data" /\ y.stop = x.stop
  <2>1. y \in FarType
    BY <1>3, <1>4 DEF FarType
  <2>2. /\ y.warm = x.warm /\ y.phase = x.phase /\ y.bits = none
        /\ y.state = "data" /\ y.stop = x.stop
    BY <1>4 DEF FarType
  <2>. QED BY <2>1, <2>2
<1>6. x.stop = 0
  BY DEF Waits
<1>7. Waits(y, byte, "data", 0)
  BY <1>3, <1>5, <1>6 DEF Waits
<1>. QED BY <1>1, <1>2, <1>5, <1>7, BitRead

\* A data bit goes behind those there are (fsk.c:417-433).
LEMMA FarReadsData ==
    ASSUME NEW x \in FarType, NEW byte \in Bytes, NEW i \in Nat, i < DataBits,
           Waits(x, byte, "data", i)
    PROVE  ReadBit(x, byte, "data", i, RxBit(x, byte[i + 1]))
<1>. DEFINE state == IF Len(x.bits) + 1 < DataBits THEN "data"
                     ELSE IF Parity # "N" THEN "parity" ELSE "stop"
            bits == Append(x.bits, byte[i + 1])
            y == [x EXCEPT !.bits = bits, !.state = state]
<1>1. RxBit(x, byte[i + 1]) = <<y, NoByte>>
  BY DEF RxBit, Waits
<1>2. x.bits \in Seq(BOOLEAN) /\ Len(x.bits) = i /\ x.stop = 0
      /\ \A j \in 1..i : x.bits[j] = byte[j]
  BY DEF FarType, Waits
<1>3. byte[i + 1] \in BOOLEAN
  BY Sizes DEF Bytes
<1>4. bits \in Seq(BOOLEAN) /\ Len(bits) = i + 1 /\ \A j \in 1..(i + 1) : bits[j] = byte[j]
  <2>1. bits \in Seq(BOOLEAN) /\ Len(bits) = i + 1
        /\ (\A j \in 1..i : bits[j] = x.bits[j]) /\ bits[i + 1] = byte[i + 1]
    <3>1. bits \in Seq(BOOLEAN) /\ Len(bits) = Len(x.bits) + 1
          /\ (\A j \in 1..Len(x.bits) : bits[j] = x.bits[j])
          /\ bits[Len(x.bits) + 1] = byte[i + 1]
      BY <1>2, <1>3, AppendProperties
    <3>. HIDE DEF bits
    <3>. QED BY <1>2, <3>1
  <2>. HIDE DEF bits
  <2>2. ASSUME NEW j \in 1..(i + 1) PROVE bits[j] = byte[j]
    <3>1. CASE j \in 1..i
      BY <1>2, <2>1, <3>1
    <3>2. CASE j = i + 1
      BY <2>1, <3>2, Zenon
    <3>. QED BY <3>1, <3>2
  <2>. QED BY <2>1, <2>2
<1>5. i + 1 = DataBits => bits = byte
  BY <1>4, SeqEqual DEF Bytes
<1>. HIDE DEF bits
<1>6. state \in {"data", "parity", "stop"} /\ state = NextKind("data", i)
      /\ (state = "data" => NextIndex("data", i) = i + 1 /\ i + 1 < DataBits)
      /\ (state # "data" => NextIndex("data", i) = 0 /\ i + 1 = DataBits)
  BY <1>2, Sizes DEF NextKind, NextIndex
<1>. HIDE DEF state
<1>7. /\ y \in FarType /\ y.warm = x.warm /\ y.phase = x.phase /\ y.bits = bits
      /\ y.state = state /\ y.stop = x.stop
  <2>1. y \in FarType
    BY <1>4, <1>6 DEF FarType
  <2>2. /\ y.warm = x.warm /\ y.phase = x.phase /\ y.bits = bits
        /\ y.state = state /\ y.stop = x.stop
    BY DEF FarType
  <2>. QED BY <2>1, <2>2
<1>. HIDE DEF y
<1>8. Waits(y, byte, state, NextIndex("data", i))
  <2>1. CASE state = "data"
    BY <1>2, <1>4, <1>6, <1>7, <2>1 DEF Waits
  <2>2. CASE state # "data"
    BY <1>2, <1>5, <1>6, <1>7, <2>2 DEF Waits
  <2>. QED BY <2>1, <2>2
<1>. QED BY <1>1, <1>6, <1>7, <1>8, BitRead

\* The parity bit is that of the bits read (fsk.c:434-447).
LEMMA FarReadsParity ==
    ASSUME NEW x \in FarType, NEW byte \in Bytes, Waits(x, byte, "parity", 0)
    PROVE  ReadBit(x, byte, "parity", 0, RxBit(x, ParityBit(byte)))
<1>. DEFINE y == RxTo(x, "stop")
<1>1. x.bits = byte /\ x.stop = 0 /\ x.state = "parity"
  BY DEF Waits
<1>2. RxBit(x, ParityBit(byte)) = <<y, NoByte>>
  BY <1>1 DEF RxBit
<1>3. /\ y \in FarType /\ y.warm = x.warm /\ y.phase = x.phase /\ y.bits = byte
      /\ y.state = "stop" /\ y.stop = 0
  BY <1>1 DEF FarType, RxTo
<1>. HIDE DEF y
<1>4. NextKind("parity", 0) = "stop" /\ NextIndex("parity", 0) = 0
  BY DEF NextKind, NextIndex
<1>5. Waits(y, byte, "stop", 0)
  BY <1>3 DEF Waits
<1>. QED BY <1>2, <1>3, <1>4, <1>5, BitRead

\* The last stop bit completes the byte (fsk.c:448-461).
LEMMA FarReadsStop ==
    ASSUME NEW x \in FarType, NEW byte \in Bytes, NEW i \in Nat, i < StopBits,
           Waits(x, byte, "stop", i)
    PROVE  ReadBit(x, byte, "stop", i, RxBit(x, TRUE))
<1>1. x.bits = byte /\ x.stop = i /\ x.state = "stop"
  BY DEF Waits
<1>2. CASE i + 1 < StopBits
  <2>. DEFINE y == [x EXCEPT !.stop = i + 1]
  <2>1. RxBit(x, TRUE) = <<y, NoByte>>
    <3>1. ~(x.stop + 1 >= StopBits)
      BY <1>1, <1>2, HalfFacts
    <3>. QED BY <1>1, <1>2, <3>1 DEF RxBit
  <2>2. /\ y \in FarType /\ y.warm = x.warm /\ y.phase = x.phase /\ y.bits = byte
        /\ y.state = "stop" /\ y.stop = i + 1
    BY <1>1, FarStop
  <2>. HIDE DEF y
  <2>3. NextKind("stop", i) = "stop" /\ NextIndex("stop", i) = i + 1
    BY <1>2 DEF NextKind, NextIndex
  <2>4. Waits(y, byte, "stop", i + 1)
    BY <2>2 DEF Waits
  <2>. QED BY <2>1, <2>2, <2>3, <2>4, BitRead
<1>3. CASE ~(i + 1 < StopBits)
  <2>. DEFINE y == RxIdle(x)
  <2>1. RxBit(x, TRUE) = <<y, byte>>
    <3>1. x.stop + 1 >= StopBits
      BY <1>1, <1>3, HalfFacts
    <3>. QED BY <1>1, <1>3, <3>1 DEF RxBit
  <2>2. y \in FarType /\ y.warm = x.warm /\ Idle(y)
    BY FarIdle
  <2>. HIDE DEF y
  <2>3. NextKind("stop", i) = "idle"
    BY <1>3 DEF NextKind
  <2>. DEFINE h == RxBit(x, TRUE)
  <2>4. h = <<y, byte>>
    BY <2>1
  <2>. HIDE DEF h
  <2>5. h[1] = y /\ h[2] = byte
    BY <2>4
  <2>6. ReadBit(x, byte, "stop", i, h)
    BY <2>2, <2>3, <2>5 DEF ReadBit
  <2>. QED BY <2>6 DEF h
<1>. QED BY <1>2, <1>3

\* Every bit of a frame.
LEMMA FarReadsBit ==
    ASSUME NEW x \in FarType, NEW byte \in Bytes, NEW k \in {"start", "data", "parity", "stop"},
           NEW i \in Nat, InFrame(k, i), Waits(x, byte, k, i)
    PROVE  ReadBit(x, byte, k, i, RxBit(x, Tone(byte, k, i)))
<1>1. CASE k = "start"
  BY <1>1, FarReadsStart DEF Tone
<1>2. CASE k = "data"
  BY <1>2, FarReadsData DEF Tone, InFrame
<1>3. CASE k = "parity"
  BY <1>3, FarReadsParity DEF Tone, InFrame
<1>4. CASE k = "stop"
  BY <1>4, FarReadsStop DEF Tone, InFrame
<1>. QED BY <1>1, <1>2, <1>3, <1>4

\* What a deframer waits for is in its state, its bits and its stop bits.
LEMMA WaitsSame ==
    ASSUME NEW x, NEW y, y.state = x.state, y.bits = x.bits, y.stop = x.stop,
           NEW byte, NEW k, NEW i
    PROVE  (Waits(x, byte, k, i) <=> Waits(y, byte, k, i)) /\ (Idle(x) <=> Idle(y))
BY DEF Waits, Idle

\* A pair of a deframer and a byte.
LEMMA HeardPair ==
    ASSUME NEW y, NEW b, NEW h, h = <<y, b>>
    PROVE  h[1] = y /\ h[2] = b
OBVIOUS

\* The sample with which a frame is complete.
Completes(k, i, p) == k = "stop" /\ i + 1 >= StopBits /\ p = Half

\* What the far end makes of a sample of a bit: it stays in step, and has the byte with
\* the middle of the last stop bit (fsk.c:381-461).
Follows(h, byte, k, i, p) ==
    /\ h[1] \in FarType /\ h[1].warm = RxWindow
    /\ At(h[1], byte, k, i, p + 1)
    /\ h[2] = IF Completes(k, i, p) THEN byte ELSE NoByte

\* Nothing is sent.
LEMMA FollowsIdle ==
    ASSUME NEW r \in FarType, r.warm + 1 >= RxWindow, NEW byte, NEW i, NEW p \in Nat,
           At(r, byte, "idle", i, p)
    PROVE  Follows(RxSample(r, TRUE, TRUE), byte, "idle", i, p)
<1>1. PICK x \in FarType :
          /\ x.warm = RxWindow /\ Alike(x, r)
          /\ x.state = "idleMark" => RxSample(r, TRUE, TRUE) = <<x, NoByte>>
  BY FarHearing
<1>2. Idle(r)
  BY DEF At
<1>3. Idle(x) /\ x.state = "idleMark"
  BY <1>1, <1>2 DEF Idle, Alike
<1>. DEFINE h == RxSample(r, TRUE, TRUE)
<1>4. h = <<x, NoByte>>
  BY <1>1, <1>3
<1>. HIDE DEF h
<1>5. h[1] = x /\ h[2] = NoByte
  BY <1>4
<1>6. At(x, byte, "idle", i, p + 1) /\ ~Completes("idle", i, p)
  BY <1>3 DEF At, Completes
<1>7. Follows(h, byte, "idle", i, p)
  BY <1>1, <1>5, <1>6 DEF Follows
<1>. QED BY <1>7 DEF h

\* The first sample of a frame.
LEMMA FollowsEdge ==
    ASSUME NEW r \in FarType, r.warm + 1 >= RxWindow, NEW byte, At(r, byte, "start", 0, 0)
    PROVE  Follows(RxSample(r, TRUE, FALSE), byte, "start", 0, 0)
<1>1. PICK x \in FarType :
          /\ x.warm = RxWindow /\ Alike(x, r)
          /\ x.state = "idleMark" =>
                RxSample(r, TRUE, FALSE) =
                    <<[x EXCEPT !.state = "startValidate", !.phase = BitSamples \div 2], NoByte>>
  BY FarHearing
<1>2. Idle(r)
  BY DEF At
<1>3. x.state = "idleMark" /\ x.stop = 0
  BY <1>1, <1>2 DEF Idle, Alike
<1>. DEFINE h == RxSample(r, TRUE, FALSE)
            y == [x EXCEPT !.state = "startValidate", !.phase = BitSamples \div 2]
<1>4. h = <<y, NoByte>>
  BY <1>1, <1>3
<1>5. y \in FarType
  BY HalfFacts DEF FarType
<1>6. y.warm = RxWindow /\ y.state = "startValidate" /\ y.stop = 0 /\ y.phase = BitSamples \div 2
  BY <1>1, <1>3 DEF FarType
<1>. HIDE DEF h, y
<1>7. h[1] = y /\ h[2] = NoByte
  BY <1>4
<1>8. At(y, byte, "start", 0, 0 + 1) /\ ~Completes("start", 0, 0)
  BY <1>6, HalfFacts DEF At, Waits, Completes
<1>9. Follows(h, byte, "start", 0, 0)
  BY <1>5, <1>6, <1>7, <1>8 DEF Follows
<1>. QED BY <1>9 DEF h

Kinds == {"start", "data", "parity", "stop"}

\* A bit up to its middle.
LEMMA FollowsBefore ==
    ASSUME NEW r \in FarType, r.warm + 1 >= RxWindow, NEW byte, NEW k \in Kinds, NEW i,
           NEW p \in Nat, NEW bit, p < Half, Waits(r, byte, k, i),
           r.phase = BitSamples \div 2 - 1 + p
    PROVE  Follows(RxSample(r, TRUE, bit), byte, k, i, p)
<1>1. PICK x \in FarType :
          /\ x.warm = RxWindow /\ Alike(x, r)
          /\ x.state # "idleMark" /\ ~Ticks(x.phase) =>
                RxSample(r, TRUE, bit) = <<[x EXCEPT !.phase = Tick(@)], NoByte>>
  BY FarHearing
<1>2. Waits(x, byte, k, i) /\ x.phase = BitSamples \div 2 - 1 + p /\ x.phase \in Nat
  BY <1>1, WaitsSame DEF Alike, FarType
<1>3. x.state # "idleMark"
  BY <1>2 DEF Waits, Kinds
<1>4. ~Ticks(x.phase) /\ Tick(x.phase) = BitSamples \div 2 + p /\ BitSamples \div 2 + p \in Nat
  <2>1. x.phase + 1 < BitSamples
    BY <1>2, HalfFacts, Sizes
  <2>2. ~Ticks(x.phase) /\ Tick(x.phase) = x.phase + 1
    BY <1>2, <2>1, ClockFacts, Sizes
  <2>. QED BY <1>2, <2>2, HalfFacts
<1>. DEFINE h == RxSample(r, TRUE, bit)
            n == BitSamples \div 2 + p
            y == [x EXCEPT !.phase = n]
<1>5. h = <<y, NoByte>>
  BY <1>1, <1>3, <1>4
<1>. HIDE DEF h
<1>6. n \in Nat
  BY <1>4
<1>. HIDE DEF n
<1>7. /\ y \in FarType /\ y.warm = x.warm /\ y.phase = n
      /\ y.bits = x.bits /\ y.state = x.state /\ y.stop = x.stop
  BY <1>6, FarClock
<1>. HIDE DEF y
<1>8. Waits(y, byte, k, i)
  BY <1>2, <1>7, WaitsSame
<1>9. At(y, byte, k, i, p + 1)
  <2>1. p + 1 <= Half /\ n = BitSamples \div 2 - 1 + (p + 1)
    BY HalfFacts DEF n
  <2>. QED BY <1>7, <1>8, <2>1 DEF At, Kinds
<1>10. ~Completes(k, i, p)
  BY HalfFacts DEF Completes
<1>11. h[1] = y /\ h[2] = NoByte
  BY <1>5
<1>12. Follows(h, byte, k, i, p)
  BY <1>1, <1>7, <1>9, <1>10, <1>11 DEF Follows
<1>. QED BY <1>12 DEF h

\* The middle of a bit.
LEMMA FollowsMiddle ==
    ASSUME NEW r \in FarType, r.warm + 1 >= RxWindow, NEW byte \in Bytes, NEW k \in Kinds,
           NEW i \in Nat, InFrame(k, i), Waits(r, byte, k, i),
           r.phase = BitSamples \div 2 - 1 + Half
    PROVE  Follows(RxSample(r, TRUE, Tone(byte, k, i)), byte, k, i, Half)
<1>. DEFINE bit == Tone(byte, k, i)
            h == RxSample(r, TRUE, bit)
<1>1. PICK x \in FarType :
          /\ x.warm = RxWindow /\ Alike(x, r)
          /\ x.state # "idleMark" /\ Ticks(x.phase) => h = RxBit([x EXCEPT !.phase = Tick(@)], bit)
  BY FarHearing
<1>2. Waits(x, byte, k, i) /\ x.phase = BitSamples - 1
  BY <1>1, WaitsSame, HalfFacts DEF Alike
<1>3. x.state # "idleMark"
  BY <1>2 DEF Waits, Kinds
<1>4. Ticks(x.phase) /\ Tick(x.phase) = 0
  BY <1>2, ClockFacts, Sizes
<1>. DEFINE n == 0
            y == [x EXCEPT !.phase = n]
<1>5. h = RxBit(y, bit)
  BY <1>1, <1>3, <1>4
<1>. HIDE DEF h
<1>6. n \in Nat /\ n = 0
  OBVIOUS
<1>. HIDE DEF n
<1>7. /\ y \in FarType /\ y.warm = x.warm /\ y.phase = n
      /\ y.bits = x.bits /\ y.state = x.state /\ y.stop = x.stop
  BY <1>6, FarClock
<1>. HIDE DEF y
<1>8. Waits(y, byte, k, i)
  BY <1>2, <1>7, WaitsSame
<1>9. ReadBit(y, byte, k, i, h)
  BY <1>5, <1>7, <1>8, FarReadsBit DEF Kinds
<1>10. NextKind(k, i) = "idle" <=> Completes(k, i, Half)
  BY HalfFacts DEF NextKind, Completes, InFrame, Kinds
<1>11. At(h[1], byte, k, i, Half + 1)
  <2>1. ~(Half + 1 <= Half) /\ Half + 1 # 0 /\ Half + 1 - Half - 1 = 0 /\ k # "idle"
    BY HalfFacts DEF Kinds
  <2>2. CASE NextKind(k, i) = "idle"
    BY <1>9, <2>1, <2>2 DEF At, ReadBit
  <2>3. CASE NextKind(k, i) # "idle"
    <3>1. Waits(h[1], byte, NextKind(k, i), NextIndex(k, i)) /\ h[1].phase = 0
      BY <1>6, <1>7, <1>9, <2>3 DEF ReadBit
    <3>2. h[1].phase = Half + 1 - Half - 1
      BY <2>1, <3>1
    <3>. QED BY <2>1, <2>3, <3>1, <3>2, HalfFacts DEF At
  <2>. QED BY <2>2, <2>3
<1>12. h[2] = IF Completes(k, i, Half) THEN byte ELSE NoByte
  BY <1>9, <1>10 DEF ReadBit
<1>13. Follows(h, byte, k, i, Half)
  BY <1>1, <1>7, <1>9, <1>11, <1>12 DEF Follows, ReadBit
<1>. QED BY <1>13 DEF h

\* A bit behind its middle.
LEMMA FollowsBehind ==
    ASSUME NEW r \in FarType, r.warm + 1 >= RxWindow, NEW byte, NEW k \in Kinds, NEW i,
           NEW p \in Nat, p < BitSamples, p > Half, At(r, byte, k, i, p),
           NEW bit, NextKind(k, i) = "idle" => bit
    PROVE  Follows(RxSample(r, TRUE, bit), byte, k, i, p)
<1>. DEFINE h == RxSample(r, TRUE, bit)
<1>1. PICK x \in FarType :
          /\ x.warm = RxWindow /\ Alike(x, r)
          /\ x.state = "idleMark" /\ bit => h = <<x, NoByte>>
          /\ x.state # "idleMark" /\ ~Ticks(x.phase) => h = <<[x EXCEPT !.phase = Tick(@)], NoByte>>
  BY FarHearing, ZenonT(30)
<1>. HIDE DEF h
<1>2. ~(p <= Half) /\ ~(p + 1 <= Half) /\ p # 0 /\ p + 1 # 0 /\ k # "idle" /\ ~Completes(k, i, p)
  BY HalfFacts DEF Kinds, Completes
<1>3. CASE NextKind(k, i) = "idle"
  <2>1. Idle(r)
    BY <1>2, <1>3 DEF At
  <2>2. Idle(x) /\ x.state = "idleMark"
    BY <1>1, <2>1 DEF Idle, Alike
  <2>3. h = <<x, NoByte>>
    BY <1>1, <1>3, <2>2
  <2>4. h[1] = x /\ h[2] = NoByte
    BY <2>3
  <2>5. At(x, byte, k, i, p + 1)
    BY <1>2, <1>3, <2>2 DEF At
  <2>6. Follows(h, byte, k, i, p)
    BY <1>1, <1>2, <2>4, <2>5 DEF Follows
  <2>. QED BY <2>6 DEF h
<1>4. CASE NextKind(k, i) # "idle"
  <2>. DEFINE l == NextKind(k, i)
              j == NextIndex(k, i)
  <2>1. Waits(r, byte, l, j) /\ r.phase = p - Half - 1
    BY <1>2, <1>4 DEF At
  <2>2. Waits(x, byte, l, j) /\ x.phase = p - Half - 1
    BY <1>1, <2>1, WaitsSame DEF Alike
  <2>3. x.state # "idleMark"
    BY <1>4, <2>2 DEF Waits, NextKind
  <2>. HIDE DEF l, j
  <2>. DEFINE n == p - Half
              y == [x EXCEPT !.phase = n]
  <2>4. ~Ticks(x.phase) /\ Tick(x.phase) = n /\ n \in Nat
    <3>1. x.phase \in Nat /\ x.phase + 1 < BitSamples /\ x.phase + 1 = n /\ n \in Nat
      BY <2>2, HalfFacts, Sizes
    <3>2. ~Ticks(x.phase) /\ Tick(x.phase) = x.phase + 1
      BY <3>1, ClockFacts, Sizes
    <3>. QED BY <3>1, <3>2
  <2>5. h = <<y, NoByte>>
    BY <1>1, <2>3, <2>4
  <2>. HIDE DEF n
  <2>6. /\ y \in FarType /\ y.warm = x.warm /\ y.phase = n
        /\ y.bits = x.bits /\ y.state = x.state /\ y.stop = x.stop
    BY <2>4, FarClock
  <2>. HIDE DEF y
  <2>7. h[1] = y /\ h[2] = NoByte
    BY <2>5
  <2>8. Waits(y, byte, l, j)
    BY <2>2, <2>6, WaitsSame
  <2>9. n = (p + 1) - Half - 1
    BY HalfFacts DEF n
  <2>10. At(y, byte, k, i, p + 1)
    BY <1>2, <1>4, <2>6, <2>8, <2>9 DEF At, l, j
  <2>11. Follows(h, byte, k, i, p)
    BY <1>1, <1>2, <2>6, <2>7, <2>10 DEF Follows
  <2>. QED BY <2>11 DEF h
<1>. QED BY <1>3, <1>4

\* Every sample of every bit.
LEMMA FarFollows ==
    ASSUME NEW r \in FarType, r.warm + 1 >= RxWindow, NEW byte, NEW k \in Kinds \cup {"idle"},
           NEW i \in Nat, NEW p \in Nat, p < BitSamples, k # "idle" => byte \in Bytes,
           InFrame(k, i), At(r, byte, k, i, p)
    PROVE  Follows(RxSample(r, TRUE, Tone(byte, k, i)), byte, k, i, p)
<1>1. CASE k = "idle"
  <2>1. Tone(byte, k, i) = TRUE
    BY <1>1 DEF Tone
  <2>. QED BY <1>1, <2>1, FollowsIdle
<1>2. CASE k = "start" /\ p = 0
  <2>1. Tone(byte, k, i) = FALSE /\ i = 0
    BY <1>2 DEF Tone, InFrame
  <2>. QED BY <1>2, <2>1, FollowsEdge
<1>3. CASE k # "idle" /\ ~(k = "start" /\ p = 0)
  <2>1. k \in Kinds /\ byte \in Bytes
    BY <1>3
  <2>2. p <= Half => Waits(r, byte, k, i) /\ r.phase = BitSamples \div 2 - 1 + p
    BY <1>3 DEF At
  <2>3. CASE p < Half
    <3>1. Waits(r, byte, k, i) /\ r.phase = BitSamples \div 2 - 1 + p
      BY <2>2, <2>3, HalfFacts
    <3>. QED BY <2>1, <2>3, <3>1, FollowsBefore, Zenon
  <2>4. CASE p = Half
    <3>1. Waits(r, byte, k, i) /\ r.phase = BitSamples \div 2 - 1 + Half
      BY <2>2, <2>4, HalfFacts
    <3>2. Follows(RxSample(r, TRUE, Tone(byte, k, i)), byte, k, i, Half)
      BY <2>1, <3>1, FollowsMiddle, Zenon
    <3>. QED BY <2>4, <3>2
  <2>5. CASE p > Half
    <3>1. NextKind(k, i) = "idle" => Tone(byte, k, i)
      BY <2>1 DEF NextKind, Tone, Kinds
    <3>. QED BY <2>1, <2>5, <3>1, FollowsBehind
  <2>6. p < Half \/ p = Half \/ p > Half
    BY HalfFacts
  <2>. QED BY <2>3, <2>4, <2>5, <2>6
<1>. QED BY <1>1, <1>2, <1>3

\* The next frame, or mark (fsk.c:195-204).
LEMMA StartsFrame ==
    ASSUME NEW t \in TxType, ~t.break, NEW q \in Seq(Bytes), NEW h, h = StartFrame(t, q)
    PROVE  /\ InFrame(h[1].state, h[1].index) /\ ~h[1].break /\ h[1].phase = t.phase
           /\ h[1].tone = Tone(h[1].byte, h[1].state, h[1].index)
           /\ \/ h[1].state = "idle" /\ q = <<>> /\ h[2] = q
              \/ h[1].state = "start" /\ <<h[1].byte>> \o h[2] = q
<1>1. CASE q = <<>>
  <2>. DEFINE u == [t EXCEPT !.state = "idle", !.byte = NoByte, !.index = 0, !.tone = TRUE]
  <2>1. h = <<u, q>>
    BY <1>1 DEF StartFrame
  <2>2. u.state = "idle" /\ u.index = 0 /\ u.tone = TRUE /\ u.break = t.break
        /\ u.phase = t.phase
    BY DEF TxType
  <2>. HIDE DEF u
  <2>3. h[1] = u /\ h[2] = q
    BY <2>1
  <2>4. InFrame("idle", 0) /\ Tone(u.byte, "idle", 0) = TRUE
    BY DEF InFrame, Tone
  <2>. QED BY <1>1, <2>2, <2>3, <2>4
<1>2. CASE q # <<>>
  <2>. DEFINE u == [t EXCEPT !.state = "start", !.byte = Head(q), !.index = 0, !.tone = FALSE]
  <2>1. h = <<u, Tail(q)>>
    BY <1>2 DEF StartFrame
  <2>2. u.state = "start" /\ u.byte = Head(q) /\ u.index = 0 /\ u.tone = FALSE /\ u.break = t.break
        /\ u.phase = t.phase
    BY DEF TxType
  <2>. HIDE DEF u
  <2>3. h[1] = u /\ h[2] = Tail(q)
    BY <2>1
  <2>4. InFrame("start", 0) /\ Tone(u.byte, "start", 0) = FALSE
    BY DEF InFrame, Tone
  <2>5. <<Head(q)>> \o Tail(q) = q
    BY <1>2
  <2>. QED BY <2>2, <2>3, <2>4, <2>5
<1>. QED BY <1>1, <1>2

\* The framer on its way through a frame (fsk.c:234-274).
LEMMA GoesOn ==
    ASSUME NEW t, Sends(t), NEW q \in Seq(Bytes), NEW h, h = TxAdvance(t, q)
    PROVE  /\ NextKind(t.state, t.index) = "idle" => h = StartFrame(t, q)
           /\ NextKind(t.state, t.index) # "idle" =>
                 /\ h[2] = q /\ h[1].byte = t.byte /\ ~h[1].break
                 /\ h[1].phase = t.phase /\ h[1].state = NextKind(t.state, t.index)
                 /\ h[1].index = NextIndex(t.state, t.index)
                 /\ h[1].tone = Tone(t.byte, h[1].state, h[1].index)
<1>. DEFINE On(u, k, i) ==
         /\ u.byte = t.byte /\ ~u.break /\ u.state = k /\ u.index = i
         /\ u.tone = Tone(t.byte, k, i) /\ u.phase = t.phase
<1>0. t \in TxType /\ ~t.break /\ InFrame(t.state, t.index) /\ t.index \in Nat
  BY DEF Sends, FramerOK, TxType
<1>1. CASE t.state = "idle"
  <2>1. h = StartFrame(t, q) /\ NextKind(t.state, t.index) = "idle"
    BY <1>1 DEF TxAdvance, NextKind
  <2>. QED BY <2>1
<1>2. CASE t.state = "start"
  <2>. DEFINE u == TxTo(t, "data", t.byte[1])
  <2>1. h = <<u, q>>
    BY <1>2 DEF TxAdvance
  <2>2. On(u, "data", 0)
    BY <1>0 DEF TxTo, TxType, Tone
  <2>3. NextKind(t.state, t.index) = "data" /\ NextIndex(t.state, t.index) = 0
    BY <1>2 DEF NextKind, NextIndex
  <2>. HIDE DEF u
  <2>4. h[1] = u /\ h[2] = q
    BY <2>1
  <2>. QED BY <2>2, <2>3, <2>4
<1>3. CASE t.state = "data" /\ t.index + 1 < DataBits
  <2>. DEFINE u == [t EXCEPT !.index = t.index + 1, !.tone = t.byte[t.index + 2]]
  <2>1. h = <<u, q>>
    <3>1. ~(t.index + 1 >= DataBits)
      BY <1>0, <1>3, Sizes
    <3>. QED BY <1>3, <3>1 DEF TxAdvance
  <2>2. On(u, "data", t.index + 1)
    BY <1>0, <1>3 DEF TxType, Tone
  <2>3. NextKind(t.state, t.index) = "data" /\ NextIndex(t.state, t.index) = t.index + 1
    BY <1>3 DEF NextKind, NextIndex
  <2>. HIDE DEF u
  <2>4. h[1] = u /\ h[2] = q
    BY <2>1
  <2>. QED BY <2>2, <2>3, <2>4
<1>4. CASE t.state = "data" /\ t.index + 1 >= DataBits /\ Parity # "N"
  <2>. DEFINE u == TxTo(t, "parity", ParityBit(t.byte))
  <2>1. h = <<u, q>>
    BY <1>4 DEF TxAdvance
  <2>2. On(u, "parity", 0)
    BY <1>0 DEF TxTo, TxType, Tone
  <2>3. NextKind(t.state, t.index) = "parity" /\ NextIndex(t.state, t.index) = 0
    BY <1>0, <1>4, Sizes DEF NextKind, NextIndex
  <2>. HIDE DEF u
  <2>4. h[1] = u /\ h[2] = q
    BY <2>1
  <2>. QED BY <2>2, <2>3, <2>4
<1>5. CASE \/ t.state = "data" /\ t.index + 1 >= DataBits /\ Parity = "N"
           \/ t.state = "parity"
  <2>. DEFINE u == TxTo(t, "stop", TRUE)
  <2>1. h = <<u, q>>
    <3>1. CASE t.state = "parity"
      BY <3>1 DEF TxAdvance
    <3>2. CASE t.state = "data" /\ t.index + 1 >= DataBits /\ Parity = "N"
      <4>1. ~(t.index + 1 < DataBits)
        BY <1>0, <3>2, Sizes
      <4>. QED BY <3>2, <4>1 DEF TxAdvance
    <3>. QED BY <1>5, <3>1, <3>2
  <2>2. On(u, "stop", 0)
    BY <1>0 DEF TxTo, TxType, Tone
  <2>3. NextKind(t.state, t.index) = "stop" /\ NextIndex(t.state, t.index) = 0
    BY <1>0, <1>5, Sizes DEF NextKind, NextIndex
  <2>. HIDE DEF u
  <2>4. h[1] = u /\ h[2] = q
    BY <2>1
  <2>. QED BY <2>2, <2>3, <2>4
<1>6. CASE t.state = "stop" /\ t.index + 1 < StopBits
  <2>. DEFINE u == [t EXCEPT !.index = t.index + 1, !.tone = TRUE]
  <2>1. h = <<u, q>>
    <3>1. ~(t.index + 1 >= StopBits)
      BY <1>0, <1>6, HalfFacts
    <3>. QED BY <1>6, <3>1 DEF TxAdvance
  <2>2. On(u, "stop", t.index + 1)
    BY <1>0, <1>6 DEF TxType, Tone
  <2>3. NextKind(t.state, t.index) = "stop" /\ NextIndex(t.state, t.index) = t.index + 1
    BY <1>6 DEF NextKind, NextIndex
  <2>. HIDE DEF u
  <2>4. h[1] = u /\ h[2] = q
    BY <2>1
  <2>. QED BY <2>2, <2>3, <2>4
<1>7. CASE t.state = "stop" /\ t.index + 1 >= StopBits
  <2>1. h = StartFrame(t, q)
    BY <1>7 DEF TxAdvance
  <2>2. NextKind(t.state, t.index) = "idle"
    BY <1>0, <1>7, HalfFacts DEF NextKind
  <2>. QED BY <2>1, <2>2
<1>8. t.state \in {"idle", "start", "data", "parity", "stop"}
  BY <1>0 DEF TxType
<1>9. t.index + 1 < DataBits \/ t.index + 1 >= DataBits
  BY <1>0, Sizes
<1>10. t.index + 1 < StopBits \/ t.index + 1 >= StopBits
  BY <1>0, HalfFacts
<1>. QED BY <1>1, <1>2, <1>3, <1>4, <1>5, <1>6, <1>7, <1>8, <1>9, <1>10, Zenon

\* The bit that follows is within its part of the frame.
LEMMA NextInFrame ==
    ASSUME NEW k \in Kinds, NEW i \in Nat, InFrame(k, i), NextKind(k, i) # "idle"
    PROVE  InFrame(NextKind(k, i), NextIndex(k, i))
BY Sizes, HalfFacts DEF InFrame, NextKind, NextIndex, Kinds

\* A framer at another sample of the same bit.
Clocked(u, t, n) ==
    /\ u.state = t.state /\ u.byte = t.byte /\ u.index = t.index /\ u.tone = t.tone
    /\ u.break = t.break /\ u.phase = n

\* A framer whose clock is set is at that sample.
LEMMA ClockedFacts ==
    ASSUME NEW t \in TxType, NEW n, NEW u, u = [t EXCEPT !.phase = n]
    PROVE  Clocked(u, t, n)
BY DEF TxType, Clocked

\* What it sends and takes off the queue with one sample (fsk.c:276-298).
LEMMA SampleSent ==
    ASSUME NEW t, Sends(t), NEW q \in Seq(Bytes), NEW o, o = TxSample(t, q)
    PROVE  /\ o.tone = Tone(t.byte, t.state, t.index)
           /\ FramerOK(o.tx) /\ o.queue \in Seq(Bytes)
           /\ t.phase + 1 < BitSamples =>
                 Clocked(o.tx, t, t.phase + 1) /\ o.queue = q
           /\ t.phase + 1 = BitSamples =>
                 /\ Clocked(o.tx, TxAdvance(t, q)[1], 0)
                 /\ o.queue = TxAdvance(t, q)[2]
<1>1. FramerOK(t) /\ ~t.break /\ t.phase \in Nat /\ t.phase < BitSamples
      /\ t.tone = Tone(t.byte, t.state, t.index)
  BY Sizes DEF Sends
<1>. DEFINE then == IF ~Ticks(t.phase) THEN <<t, q>> ELSE TxAdvance(t, q)
<1>2. o = [tone |-> t.tone, tx |-> [then[1] EXCEPT !.phase = Tick(@)], queue |-> then[2]]
  BY <1>1 DEF TxSample
<1>3. o.tone = t.tone /\ o.tx = [then[1] EXCEPT !.phase = Tick(@)] /\ o.queue = then[2]
  <2>. HIDE DEF then
  <2>. QED BY <1>2
<1>4. FramerOK(o.tx) /\ o.queue \in Seq(Bytes)
  BY <1>1, SampleFacts
<1>5. ASSUME t.phase + 1 < BitSamples
      PROVE  Clocked(o.tx, t, t.phase + 1) /\ o.queue = q
  <2>1. ~Ticks(t.phase) /\ Tick(t.phase) = t.phase + 1
    BY <1>1, <1>5, ClockFacts
  <2>2. then[1] = t /\ then[2] = q
    BY <2>1
  <2>. HIDE DEF then
  <2>3. o.tx = [t EXCEPT !.phase = t.phase + 1]
    BY <1>3, <2>1, <2>2
  <2>4. t \in TxType
    BY <1>1 DEF FramerOK
  <2>. QED BY <1>3, <2>2, <2>3, <2>4, ClockedFacts
<1>6. ASSUME t.phase + 1 = BitSamples
      PROVE  /\ Clocked(o.tx, TxAdvance(t, q)[1], 0)
             /\ o.queue = TxAdvance(t, q)[2]
  <2>1. Ticks(t.phase) /\ Tick(t.phase) = 0
    BY <1>1, <1>6, ClockFacts
  <2>2. then = TxAdvance(t, q)
    BY <2>1
  <2>. DEFINE h == TxAdvance(t, q)
  <2>3. h[1].phase = t.phase
    <3>1. CASE NextKind(t.state, t.index) = "idle"
      <4>1. h = StartFrame(t, q)
        BY <3>1, GoesOn
      <4>. HIDE DEF h
      <4>. QED BY <1>1, <4>1, StartsFrame DEF FramerOK
    <3>2. CASE NextKind(t.state, t.index) # "idle"
      BY <3>2, GoesOn
    <3>. QED BY <3>1, <3>2
  <2>4. h[1] \in TxType
    BY <1>1, AdvanceFacts DEF FramerOK
  <2>. HIDE DEF then, h
  <2>. DEFINE x == h[1]
  <2>5. o.tx = [x EXCEPT !.phase = 0] /\ o.queue = h[2]
    BY <1>3, <2>1, <2>2, <2>3 DEF h
  <2>6. x \in TxType
    BY <2>4
  <2>. HIDE DEF x
  <2>7. Clocked(o.tx, x, 0)
    BY <2>5, <2>6, ClockedFacts
  <2>. QED BY <2>5, <2>7 DEF h, x
<1>. QED BY <1>1, <1>3, <1>4, <1>5, <1>6

\* The framer sends on, the far end stays in step with it, and what it has not read is
\* shorter by a byte when that is complete.
SentOn(t, q, o) ==
    /\ Sends(o.tx) /\ o.queue \in Seq(Bytes)
    /\ \A r : At(r, t.byte, t.state, t.index, t.phase + 1)
              => At(r, o.tx.byte, o.tx.state, o.tx.index, o.tx.phase)
    /\ Completes(t.state, t.index, t.phase) =>
          Unread(t, q) = <<t.byte>> \o q /\ Unread(o.tx, o.queue) = q
    /\ ~Completes(t.state, t.index, t.phase) => Unread(o.tx, o.queue) = Unread(t, q)
    /\ t.state = "idle" /\ q = <<>> => o.tx.state = "idle" /\ o.queue = <<>>

\* Within a bit.
LEMMA SentWithin ==
    ASSUME NEW t, Sends(t), NEW q \in Seq(Bytes), t.phase + 1 < BitSamples
    PROVE  SentOn(t, q, TxSample(t, q))
<1>. DEFINE o == TxSample(t, q)
            u == o.tx
<1>0. o = TxSample(t, q)
  OBVIOUS
<1>. HIDE DEF o
<1>1. Clocked(u, t, t.phase + 1) /\ o.queue = q /\ FramerOK(u)
  BY <1>0, SampleSent
<1>. HIDE DEF u
<1>2. t \in TxType /\ t.phase \in Nat /\ t.phase + 1 \in Nat /\ ~t.break
      /\ InFrame(t.state, t.index) /\ t.tone = Tone(t.byte, t.state, t.index) /\ t.index \in Nat
  BY DEF Sends, FramerOK, TxType
<1>3. /\ u.state = t.state /\ u.byte = t.byte /\ u.index = t.index /\ u.tone = t.tone
      /\ u.break = t.break /\ u.phase = t.phase + 1
  BY <1>1 DEF Clocked
<1>4. Sends(u)
  <2>1. u.phase \in 0..(BitSamples - 1)
    BY <1>2, <1>3, Sizes
  <2>2. InFrame(u.state, u.index) /\ u.tone = Tone(u.byte, u.state, u.index)
    BY <1>2, <1>3, Zenon
  <2>. QED BY <1>1, <1>2, <1>3, <2>1, <2>2 DEF Sends
<1>5. /\ Completes(t.state, t.index, t.phase) =>
            Unread(t, q) = <<t.byte>> \o q /\ Unread(u, q) = q
      /\ ~Completes(t.state, t.index, t.phase) => Unread(u, q) = Unread(t, q)
  <2>1. t.phase > Half \/ t.phase < Half \/ t.phase = Half
    BY <1>2, HalfFacts, SMTT(30)
  <2>2. CASE t.phase > Half
    <3>1. u.phase > Half /\ t.phase # Half
      BY <1>2, <1>3, <2>2, HalfFacts, SMTT(30)
    <3>. QED BY <1>3, <2>2, <3>1 DEF Completes, Unread
  <2>3. CASE t.phase < Half
    <3>1. ~(u.phase > Half) /\ ~(t.phase > Half) /\ t.phase # Half
      BY <1>2, <1>3, <2>3, HalfFacts, SMTT(30)
    <3>. QED BY <1>3, <3>1 DEF Completes, Unread
  <2>4. CASE t.phase = Half
    <3>1. u.phase > Half /\ ~(t.phase > Half)
      BY <1>2, <1>3, <2>4, HalfFacts
    <3>. QED BY <1>3, <2>4, <3>1 DEF Completes, Unread
  <2>. QED BY <2>1, <2>2, <2>3, <2>4
<1>6. SentOn(t, q, o)
  BY <1>1, <1>3, <1>4, <1>5 DEF SentOn, u
<1>. QED BY <1>6 DEF o

\* At the end of a bit.
LEMMA SentAcross ==
    ASSUME NEW t, Sends(t), NEW q \in Seq(Bytes), t.phase + 1 = BitSamples
    PROVE  SentOn(t, q, TxSample(t, q))
<1>. DEFINE o == TxSample(t, q)
            u == o.tx
            h == TxAdvance(t, q)
<1>0. o = TxSample(t, q)
  OBVIOUS
<1>. HIDE DEF o
<1>1. Clocked(u, h[1], 0) /\ o.queue = h[2] /\ FramerOK(u) /\ o.queue \in Seq(Bytes)
  BY <1>0, SampleSent
<1>2. t \in TxType /\ FramerOK(t) /\ t.phase \in Nat /\ ~t.break
      /\ InFrame(t.state, t.index) /\ t.tone = Tone(t.byte, t.state, t.index) /\ t.index \in Nat
  BY DEF Sends, FramerOK, TxType
<1>3. h[1] \in TxType
  BY <1>2, AdvanceFacts DEF FramerOK
<1>4. h = TxAdvance(t, q)
  OBVIOUS
<1>. HIDE DEF u, h
<1>5. /\ u.state = h[1].state /\ u.byte = h[1].byte /\ u.index = h[1].index
      /\ u.tone = h[1].tone /\ u.break = h[1].break /\ u.phase = 0
  BY <1>1 DEF Clocked
<1>6. t.phase + 1 # 0 /\ ~(t.phase + 1 <= Half) /\ t.phase >= Half
      /\ t.phase + 1 > Half /\ ~(0 > Half) /\ 0 <= Half /\ 0 # Half /\ 0 \in 0..(BitSamples - 1)
  BY <1>2, HalfFacts, Sizes
<1>7. CASE NextKind(t.state, t.index) = "idle"
  <2>1. h = StartFrame(t, q)
    BY <1>4, <1>7, GoesOn
  <2>2. /\ InFrame(u.state, u.index) /\ ~u.break /\ u.tone = Tone(u.byte, u.state, u.index)
        /\ \/ u.state = "idle" /\ q = <<>> /\ o.queue = q
           \/ u.state = "start" /\ <<u.byte>> \o o.queue = q
    BY <1>1, <1>2, <1>5, <2>1, StartsFrame, SMTT(30)
  <2>3. Sends(u)
    BY <1>1, <1>5, <1>6, <2>2 DEF Sends
  <2>4. Unread(u, o.queue) = q
    BY <2>2 DEF Unread
  <2>5. t.state = "idle" \/ (t.state = "stop" /\ t.index + 1 >= StopBits)
    BY <1>2, <1>7, HalfFacts DEF NextKind, TxType
  <2>6. /\ Completes(t.state, t.index, t.phase) => Unread(t, q) = <<t.byte>> \o q
        /\ ~Completes(t.state, t.index, t.phase) => Unread(t, q) = q
    <3>1. t.phase = Half \/ t.phase > Half
      <4>. DEFINE phase == t.phase
                  half == Half
      <4>1. phase \in Nat /\ half \in Nat /\ phase >= half
        BY <1>2, <1>6, HalfFacts
      <4>. HIDE DEF phase, half
      <4>2. phase = half \/ phase > half
        BY <4>1
      <4>. QED BY <4>2 DEF phase, half
    <3>2. t.phase = Half => ~(t.phase > Half)
      BY HalfFacts
    <3>. QED BY <2>5, <3>1, <3>2 DEF Completes, Unread
  <2>7. ASSUME NEW r, At(r, t.byte, t.state, t.index, t.phase + 1)
        PROVE  At(r, u.byte, u.state, u.index, u.phase)
    <3>1. Idle(r)
      <4>1. t.phase + 1 # 0 /\ ~(t.phase + 1 <= Half)
        BY <1>6
      <4>. QED BY <1>7, <2>7, <4>1, Zenon DEF At
    <3>. QED BY <1>5, <2>2, <3>1 DEF At
  <2>8. t.state = "idle" /\ q = <<>> => u.state = "idle" /\ o.queue = <<>>
    BY <2>2
  <2>9. SentOn(t, q, o)
    BY <1>1, <2>3, <2>4, <2>6, <2>7, <2>8 DEF SentOn, u
  <2>. QED BY <2>9 DEF o
<1>8. CASE NextKind(t.state, t.index) # "idle"
  <2>. DEFINE l == NextKind(t.state, t.index)
              j == NextIndex(t.state, t.index)
  <2>1. /\ o.queue = q /\ u.byte = t.byte /\ ~u.break /\ u.state = l /\ u.index = j
        /\ u.tone = Tone(u.byte, u.state, u.index)
    BY <1>1, <1>4, <1>5, <1>8, GoesOn
  <2>2. t.state \in Kinds /\ l \in {"data", "parity", "stop"}
    BY <1>2, <1>8 DEF Kinds, TxType, NextKind
  <2>3. InFrame(l, j)
    BY <1>2, <1>8, <2>2, NextInFrame
  <2>4. ~Completes(t.state, t.index, t.phase) /\ ~(t.state = "stop" /\ t.index + 1 >= StopBits)
    <3>1. ASSUME t.state = "stop" PROVE t.index + 1 < StopBits
      BY <1>8, <3>1 DEF NextKind
    <3>2. ~(t.state = "stop" /\ t.index + 1 >= StopBits)
      BY <1>2, <3>1, HalfFacts
    <3>. QED BY <3>2 DEF Completes
  <2>5. Unread(t, q) = <<t.byte>> \o q
    BY <2>2, <2>4 DEF Unread, Kinds
  <2>. HIDE DEF l, j
  <2>6. Sends(u)
    BY <1>1, <1>5, <1>6, <2>1, <2>3 DEF Sends
  <2>7. Unread(u, o.queue) = <<t.byte>> \o q
    BY <1>5, <1>6, <2>1, <2>2 DEF Unread
  <2>8. ASSUME NEW r, At(r, t.byte, t.state, t.index, t.phase + 1)
        PROVE  At(r, u.byte, u.state, u.index, u.phase)
    <3>1. t.state # "idle"
      BY <2>2 DEF Kinds
    <3>. DEFINE p == t.phase + 1
    <3>2. At(r, t.byte, t.state, t.index, p)
      BY <2>8
    <3>3. p # 0 /\ ~(p <= Half) /\ p \in Nat
      BY <1>2, <1>6
    <3>4. p - Half - 1 = BitSamples \div 2 - 1 + 0
      BY <1>2, HalfFacts, Sizes
    <3>. HIDE DEF p
    <3>5. Waits(r, t.byte, l, j) /\ r.phase = p - Half - 1
      BY <1>8, <3>1, <3>2, <3>3, HalfFacts DEF At, l, j
    <3>6. Waits(r, t.byte, l, j) /\ r.phase = BitSamples \div 2 - 1 + 0
      BY <3>4, <3>5
    <3>. QED BY <1>5, <1>6, <2>1, <2>2, <3>6 DEF At
  <2>9. t.state # "idle"
    BY <2>2 DEF Kinds
  <2>10. SentOn(t, q, o)
    BY <1>1, <2>1, <2>4, <2>5, <2>6, <2>7, <2>8, <2>9 DEF SentOn, u
  <2>. QED BY <2>10 DEF o
<1>. QED BY <1>7, <1>8

\* A sample of the framer.
LEMMA SentSample ==
    ASSUME NEW t, Sends(t), NEW q \in Seq(Bytes)
    PROVE  SentOn(t, q, TxSample(t, q))
<1>1. t.phase \in Nat /\ (t.phase + 1 < BitSamples \/ t.phase + 1 = BitSamples)
  BY Sizes DEF Sends
<1>. QED BY <1>1, SentWithin, SentAcross

\* A byte is a byte.
LEMMA ByteIsNone == ASSUME NEW b \in Bytes PROVE b # NoByte
<1>1. b \in Seq(BOOLEAN) /\ Len(b) = DataBits
  BY Sizes DEF Bytes
<1>2. Len(NoByte) = 0
  BY DEF NoByte
<1>. QED BY <1>1, <1>2, Sizes

\* A far end that hears no byte, and one that hears the first it is owed.
LEMMA FarHeard ==
    ASSUME NEW f \in FarEnd, NEW tone, NEW h, h = RxSample(f.rx, TRUE, tone), h[1] \in FarType
    PROVE  LET g == FarHears(f, tone) IN
           /\ h[2] = NoByte => g \in FarEnd /\ g.rx = h[1] /\ g.owed = f.owed
           /\ h[2] # NoByte /\ f.owed # <<>> /\ h[2] = Head(f.owed) =>
                 g \in FarEnd /\ g.rx = h[1] /\ g.owed = Tail(f.owed)
<1>. DEFINE g == FarHears(f, tone)
            x == h[1]
            rest == Tail(f.owed)
<1>a. f.owed \in Seq(Bytes)
  BY DEF FarEnd
<1>0. g = CASE h[2] = NoByte -> [f EXCEPT !.rx = h[1]]
            [] f.owed # <<>> /\ h[2] = Head(f.owed) -> [f EXCEPT !.rx = h[1], !.owed = Tail(f.owed)]
            [] OTHER -> [f EXCEPT !.rx = h[1], !.garbled = TRUE]
  BY Zenon DEF FarHears
<1>1. CASE h[2] = NoByte
  <2>0. ~(f.owed # <<>> /\ h[2] = Head(f.owed))
    <3>1. ASSUME f.owed # <<>> PROVE Head(f.owed) \in Bytes
      BY <3>1, <1>a, HeadTailProperties
    <3>. QED BY <1>1, <3>1, ByteIsNone
  <2>1. g = [f EXCEPT !.rx = x]
    BY <1>0, <1>1, <2>0
  <2>2. x \in FarType
    OBVIOUS
  <2>. HIDE DEF x
  <2>3. g \in FarEnd
    BY <2>1, <2>2 DEF FarEnd
  <2>4. g.rx = x /\ g.owed = f.owed
    BY <2>1 DEF FarEnd
  <2>. QED BY <1>1, <2>3, <2>4 DEF x
<1>2. CASE h[2] # NoByte /\ f.owed # <<>> /\ h[2] = Head(f.owed)
  <2>1. g = [f EXCEPT !.rx = x, !.owed = rest]
    BY <1>0, <1>2
  <2>2. x \in FarType /\ rest \in Seq(Bytes)
    BY <1>a, <1>2, HeadTailProperties
  <2>. HIDE DEF x, rest
  <2>3. g \in FarEnd
    BY <2>1, <2>2 DEF FarEnd
  <2>4. g.rx = x /\ g.owed = rest
    BY <2>1 DEF FarEnd
  <2>. QED BY <1>2, <2>3, <2>4 DEF x, rest
<1>. QED BY <1>1, <1>2

\* The first of a sequence and the rest.
LEMMA FirstFacts ==
    ASSUME NEW b \in Bytes, NEW q \in Seq(Bytes), NEW r, r = <<b>> \o q
    PROVE  r # <<>> /\ Head(r) = b /\ Tail(r) = q
<1>1. <<b>> \in Seq(Bytes) /\ Len(<<b>>) = 1 /\ <<b>>[1] = b
  OBVIOUS
<1>2. r \in Seq(Bytes) /\ Len(r) = 1 + Len(q) /\ r[1] = b
      /\ \A i \in 1..Len(q) : r[i + 1] = q[i]
  BY <1>1, ConcatProperties
<1>3. r # <<>> /\ Head(r) = b
  BY <1>2
<1>4. Tail(r) \in Seq(Bytes) /\ Len(Tail(r)) = Len(q) /\ \A i \in 1..Len(q) : Tail(r)[i] = r[i + 1]
  BY <1>2, <1>3, HeadTailProperties
<1>5. Tail(r) = q
  BY <1>2, <1>4, SeqEqual
<1>. QED BY <1>3, <1>5

\* A sample of a session without a lead-in that is left: what the far end hears is what it
\* is owed (modem_fsk.c:337-346).
LEMMA HeardInStep ==
    ASSUME NEW t, Sends(t), NEW q \in Seq(Bytes), NEW f \in FarEnd,
           f.rx.warm + 1 >= RxWindow, At(f.rx, t.byte, t.state, t.index, t.phase),
           f.owed = Unread(t, q), NEW o, SentOn(t, q, o), NEW tone,
           tone = Tone(t.byte, t.state, t.index), NEW g, g = FarHears(f, tone)
    PROVE  /\ Sends(o.tx) /\ g \in FarEnd /\ g.rx.warm = RxWindow
           /\ At(g.rx, o.tx.byte, o.tx.state, o.tx.index, o.tx.phase)
           /\ g.owed = Unread(o.tx, o.queue)
<1>. DEFINE done == Completes(t.state, t.index, t.phase)
            h == RxSample(f.rx, TRUE, tone)
<1>3. Follows(h, t.byte, t.state, t.index, t.phase)
  <2>1. f.rx \in FarType
    BY DEF FarEnd
  <2>2. t.state \in Kinds \cup {"idle"} /\ t.index \in Nat /\ t.phase \in Nat
        /\ t.phase < BitSamples /\ (t.state # "idle" => t.byte \in Bytes)
        /\ InFrame(t.state, t.index)
    BY Sizes DEF Sends, FramerOK, TxType, Kinds
  <2>. QED BY <2>1, <2>2, FarFollows
<1>4. h = RxSample(f.rx, TRUE, tone)
  OBVIOUS
<1>. HIDE DEF h
<1>5. h[1] \in FarType /\ h[1].warm = RxWindow
      /\ At(h[1], t.byte, t.state, t.index, t.phase + 1)
      /\ h[2] = IF done THEN t.byte ELSE NoByte
  BY <1>3 DEF Follows
<1>. HIDE DEF done
<1>6. At(h[1], o.tx.byte, o.tx.state, o.tx.index, o.tx.phase)
  BY <1>5 DEF SentOn
<1>7. CASE ~done
  <2>1. g \in FarEnd /\ g.rx = h[1] /\ g.owed = f.owed
    <3>1. h[2] = NoByte
      BY <1>5, <1>7
    <3>. QED BY <1>4, <1>5, <3>1, FarHeard
  <2>2. g.owed = Unread(o.tx, o.queue)
    BY <1>7, <2>1 DEF SentOn, done
  <2>. QED BY <1>5, <1>6, <2>1, <2>2 DEF SentOn
<1>8. CASE done
  <2>1. f.owed = <<t.byte>> \o q /\ Unread(o.tx, o.queue) = q
    BY <1>8 DEF SentOn, done
  <2>2. t.byte \in Bytes
    BY <1>8 DEF Completes, Sends, FramerOK, done
  <2>3. f.owed # <<>> /\ Head(f.owed) = t.byte /\ Tail(f.owed) = q
    BY <2>1, <2>2, FirstFacts
  <2>4. h[2] = t.byte /\ h[2] # NoByte
    BY <1>5, <1>8, <2>2, ByteIsNone
  <2>5. g \in FarEnd /\ g.rx = h[1] /\ g.owed = Tail(f.owed)
    <3>1. h[1] \in FarType /\ h[2] # NoByte /\ f.owed # <<>> /\ h[2] = Head(f.owed)
      BY <1>5, <2>3, <2>4
    <3>. QED BY <1>4, <3>1, FarHeard
  <2>6. g.owed = Unread(o.tx, o.queue)
    BY <2>1, <2>3, <2>5
  <2>. QED BY <1>5, <1>6, <2>5, <2>6 DEF SentOn
<1>. QED BY <1>7, <1>8

\* What a sample of a session does to its framer, its queue and its lead-in, and what the
\* far end hears (modem_fsk.c:319-346).
LEMMA SampleFields ==
    ASSUME NEW t, SessionOK(t), NEW f, NEW byte \in BOOLEAN, NEW level \in BOOLEAN,
           NEW p, p = ProcessSample(<<t, f>>, byte, level)
    PROVE  /\ t.break_state # "idle" => p[1].break_state # "idle" /\ p[2] = FarStart
           /\ t.break_state = "idle" =>
                 LET o == TxSample(t.tx, IF t.tx_leadin > 0 THEN <<>> ELSE t.tx_q)
                 IN  /\ p[1].break_state = "idle" /\ p[1].tx = o.tx
                     /\ p[1].tx_q = IF t.tx_leadin > 0 THEN t.tx_q ELSE o.queue
                     /\ p[1].tx_leadin = IF t.tx_leadin > 0 THEN t.tx_leadin - 1 ELSE 0
                     /\ p[2] = FarHears(f, o.tone)
<1>. DEFINE q == [t EXCEPT
                !.rx = SenseCarrier(@, level),
                !.tx.break = IF byte /\ t.break_state = "active" THEN FALSE ELSE @,
                !.break_state = IF byte /\ @ = "active" THEN "done" ELSE @,
                !.rx_q_len = IF byte THEN Least(@ + 1, RxSize) ELSE @]
            lead == q.tx_leadin > 0
            out == TxSample(q.tx, IF lead THEN <<>> ELSE q.tx_q)
            queue == IF lead THEN q.tx_q ELSE out.queue
            left == IF lead THEN q.tx_leadin - 1 ELSE 0
            framer == out.tx
            after == [q EXCEPT !.tx = framer, !.tx_q = queue, !.tx_leadin = left]
            far2 == IF q.break_state = "idle" THEN FarHears(f, out.tone) ELSE FarStart
<1>1. p = <<after, far2>>
  BY DEF ProcessSample
<1>2. /\ t \in [tx: TxType, tx_q: Seq(Bytes), tx_leadin: 0..LeadIn, rx_q_len: 0..RxSize,
                break_state: {"idle", "active", "done"}, rx: RxType]
      /\ t.tx \in TxType
  BY DEF SessionOK, FramerOK
<1>3. q.tx_q = t.tx_q /\ q.tx_leadin = t.tx_leadin
      /\ q.tx = [t.tx EXCEPT !.break = IF byte /\ t.break_state = "active" THEN FALSE ELSE @]
      /\ q.break_state = IF byte /\ t.break_state = "active" THEN "done" ELSE t.break_state
  BY <1>2
<1>4. t.break_state = "idle" => q.tx = t.tx
  BY <1>2, <1>3 DEF TxType
<1>5. after.break_state = q.break_state /\ after.tx = framer /\ after.tx_q = queue
      /\ after.tx_leadin = left
  <2>1. q \in [tx: {q.tx}, tx_q: {q.tx_q}, tx_leadin: {q.tx_leadin}, rx_q_len: {q.rx_q_len},
               break_state: {q.break_state}, rx: {q.rx}]
    BY <1>2
  <2>. HIDE DEF q, framer, queue, left
  <2>. QED BY <2>1
<1>6. p[1] = after /\ p[2] = far2
  <2>. HIDE DEF after, far2
  <2>. QED BY <1>1
<1>. HIDE DEF after
<1>7. CASE t.break_state # "idle"
  <2>1. q.break_state # "idle"
    BY <1>3, <1>7
  <2>. HIDE DEF q
  <2>. QED BY <1>5, <1>6, <1>7, <2>1
<1>8. CASE t.break_state = "idle"
  <2>1. q.break_state = "idle" /\ q.tx = t.tx /\ q.tx_q = t.tx_q /\ q.tx_leadin = t.tx_leadin
    BY <1>3, <1>4, <1>8
  <2>. HIDE DEF q
  <2>. DEFINE o == TxSample(t.tx, IF t.tx_leadin > 0 THEN <<>> ELSE t.tx_q)
  <2>2. out = o
    BY <2>1
  <2>. HIDE DEF o, out
  <2>3. /\ p[1].break_state = "idle" /\ p[1].tx = o.tx
        /\ p[1].tx_q = IF t.tx_leadin > 0 THEN t.tx_q ELSE o.queue
        /\ p[1].tx_leadin = IF t.tx_leadin > 0 THEN t.tx_leadin - 1 ELSE 0
        /\ p[2] = FarHears(f, o.tone)
    BY <1>5, <1>6, <2>1, <2>2
  <2>. QED BY <1>8, <2>3 DEF o
<1>. QED BY <1>7, <1>8

\* The mark of the lead-in, while the far end's window fills.
LEMMA FarWarms ==
    ASSUME NEW f \in FarEnd, f.rx.warm + 1 < RxWindow, NEW tone
    PROVE  LET g == FarHears(f, tone)
           IN  /\ g \in FarEnd /\ Alike(g.rx, f.rx) /\ g.rx.warm = f.rx.warm + 1
               /\ g.owed = f.owed
<1>. DEFINE n == f.rx.warm + 1
            x == [f.rx EXCEPT !.warm = n]
            h == RxSample(f.rx, TRUE, tone)
<1>1. f.rx \in FarType
  BY DEF FarEnd
<1>2. n \in 0..RxWindow
  <2>1. f.rx.warm \in 0..RxWindow
    BY <1>1 DEF FarType
  <2>. QED BY <2>1, HalfFacts
<1>3. h = <<x, NoByte>>
  BY DEF RxSample
<1>. HIDE DEF n
<1>4. x \in FarType /\ Alike(x, f.rx) /\ x.warm = n
  BY <1>1, <1>2, FarSet
<1>5. h = RxSample(f.rx, TRUE, tone)
  OBVIOUS
<1>. HIDE DEF x, h
<1>6. h[1] = x /\ h[2] = NoByte
  BY <1>3
<1>7. h[1] \in FarType
  BY <1>4, <1>6
<1>8. FarHears(f, tone) \in FarEnd /\ FarHears(f, tone).rx = h[1] /\ FarHears(f, tone).owed = f.owed
  BY <1>5, <1>6, <1>7, FarHeard
<1>. QED BY <1>4, <1>6, <1>8 DEF n

\* The mark of the lead-in, once it has.
LEMMA HearsMark ==
    ASSUME NEW f \in FarEnd, f.rx.warm + 1 >= RxWindow, Idle(f.rx)
    PROVE  LET g == FarHears(f, TRUE)
           IN  /\ g \in FarEnd /\ Idle(g.rx) /\ g.rx.warm = RxWindow /\ g.owed = f.owed
<1>. DEFINE h == RxSample(f.rx, TRUE, TRUE)
<1>1. f.rx \in FarType /\ At(f.rx, NoByte, "idle", 0, 0)
  BY DEF FarEnd, At
<1>2. Follows(h, NoByte, "idle", 0, 0)
  BY <1>1, FollowsIdle
<1>3. h = RxSample(f.rx, TRUE, TRUE)
  OBVIOUS
<1>. HIDE DEF h
<1>4. h[1] \in FarType /\ h[1].warm = RxWindow /\ Idle(h[1]) /\ h[2] = NoByte
  BY <1>2 DEF Follows, At
<1>5. FarHears(f, TRUE) \in FarEnd /\ FarHears(f, TRUE).rx = h[1] /\ FarHears(f, TRUE).owed = f.owed
  BY <1>3, <1>4, FarHeard
<1>. QED BY <1>4, <1>5

\* In step up to the lead-in and in step after it.
LEMMA SampleInStep ==
    ASSUME NEW t, SessionOK(t), NEW f, InStep(t, f), NEW byte \in BOOLEAN, NEW level \in BOOLEAN,
           NEW p, p = ProcessSample(<<t, f>>, byte, level)
    PROVE  InStep(p[1], p[2])
<1>1. CASE t.break_state # "idle"
  BY <1>1, SampleFields DEF InStep
<1>2. CASE t.break_state = "idle"
  <2>. DEFINE u == p[1]
              g == p[2]
  <2>1. /\ Sends(t.tx) /\ f \in FarEnd
        /\ At(f.rx, t.tx.byte, t.tx.state, t.tx.index, t.tx.phase)
        /\ f.owed = Unread(t.tx, t.tx_q)
        /\ t.tx_leadin > 0 => t.tx.state = "idle"
        /\ f.rx.warm + t.tx_leadin >= RxWindow
    BY <1>2 DEF InStep
  <2>2. t.tx_q \in Seq(Bytes) /\ t.tx_leadin \in Nat /\ <<>> \in Seq(Bytes)
    BY Sizes DEF SessionOK
  <2>3. /\ f.rx.warm \in Int /\ f.rx.warm <= RxWindow
        /\ t.tx_leadin \in Int /\ t.tx_leadin >= 0 /\ RxWindow \in Int
    <3>1. f.rx.warm \in 0..RxWindow
      BY <2>1 DEF FarEnd, FarType
    <3>. QED BY <2>2, <3>1, HalfFacts
  <2>4. CASE t.tx_leadin > 0
    <3>. DEFINE none == <<>>
                o == TxSample(t.tx, none)
    <3>1. u.break_state = "idle" /\ u.tx = o.tx /\ u.tx_q = t.tx_q /\ u.tx_leadin = t.tx_leadin - 1
          /\ g = FarHears(f, o.tone)
      BY <1>2, <2>4, SampleFields
    <3>2. SentOn(t.tx, none, o) /\ none \in Seq(Bytes)
      BY <2>1, <2>2, SentSample
    <3>3. t.tx.state = "idle" /\ o.tx.state = "idle" /\ o.queue = none /\ Sends(o.tx)
      BY <2>1, <2>4, <3>2 DEF SentOn
    <3>4. o.tone = Tone(t.tx.byte, t.tx.state, t.tx.index)
      BY <2>1, <2>2, SampleSent, ZenonT(30)
    <3>5. Unread(t.tx, t.tx_q) = t.tx_q /\ Unread(o.tx, t.tx_q) = t.tx_q
          /\ Unread(t.tx, none) = none /\ Unread(o.tx, none) = none
      BY <3>3 DEF Unread
    <3>. HIDE DEF none, o
    <3>6. CASE f.rx.warm + 1 < RxWindow
      <4>1. /\ g \in FarEnd /\ Alike(g.rx, f.rx) /\ g.rx.warm = f.rx.warm + 1 /\ g.owed = f.owed
        BY <2>1, <3>1, <3>6, FarWarms
      <4>2. At(g.rx, o.tx.byte, o.tx.state, o.tx.index, o.tx.phase)
        BY <2>1, <3>3, <4>1 DEF At, Idle, Alike
      <4>3. g.rx.warm + u.tx_leadin >= RxWindow
        <5>1. f.rx.warm + t.tx_leadin >= RxWindow
          BY <2>1
        <5>2. g.rx.warm = f.rx.warm + 1 /\ u.tx_leadin = t.tx_leadin - 1
          BY <3>1, <4>1
        <5>3. (f.rx.warm + 1) + (t.tx_leadin - 1) >= RxWindow
          BY <2>3, <5>1
        <5>. QED BY <5>2, <5>3
      <4>. QED BY <2>1, <3>1, <3>3, <3>5, <4>1, <4>2, <4>3 DEF InStep
    <3>7. CASE f.rx.warm + 1 >= RxWindow
      <4>1. Idle(f.rx) /\ f.rx \in FarType
        BY <2>1, <3>3 DEF At, FarEnd
      <4>2. /\ g \in FarEnd /\ Idle(g.rx) /\ g.rx.warm = RxWindow /\ g.owed = f.owed
        <5>1. o.tone = TRUE
          BY <3>3, <3>4 DEF Tone
        <5>2. g = FarHears(f, TRUE)
          BY <3>1, <5>1
        <5>. QED BY <2>1, <3>7, <4>1, <5>2, HearsMark
      <4>3. At(g.rx, o.tx.byte, o.tx.state, o.tx.index, o.tx.phase)
        BY <3>3, <4>2 DEF At
      <4>4. g.rx.warm + u.tx_leadin >= RxWindow
        <5>1. RxWindow + (t.tx_leadin - 1) >= RxWindow
          BY <2>3, <2>4
        <5>. QED BY <3>1, <4>2, <5>1
      <4>. QED BY <2>1, <3>1, <3>3, <3>5, <4>2, <4>3, <4>4 DEF InStep
    <3>. QED BY <2>3, <3>6, <3>7
  <2>5. CASE ~(t.tx_leadin > 0)
    <3>. DEFINE o == TxSample(t.tx, t.tx_q)
    <3>1. u.break_state = "idle" /\ u.tx = o.tx /\ u.tx_q = o.queue /\ u.tx_leadin = 0
          /\ g = FarHears(f, o.tone)
      BY <1>2, <2>5, SampleFields
    <3>2. SentOn(t.tx, t.tx_q, o)
      BY <2>1, <2>2, SentSample
    <3>3. o.tone = Tone(t.tx.byte, t.tx.state, t.tx.index)
      BY <2>1, <2>2, SampleSent
    <3>4. f.rx.warm + 1 >= RxWindow
      <4>1. f.rx.warm + t.tx_leadin >= RxWindow
        BY <2>1
      <4>. QED BY <2>3, <2>5, <4>1
    <3>. HIDE DEF o
    <3>5. /\ Sends(o.tx) /\ g \in FarEnd /\ g.rx.warm = RxWindow
          /\ At(g.rx, o.tx.byte, o.tx.state, o.tx.index, o.tx.phase)
          /\ g.owed = Unread(o.tx, o.queue)
      BY <2>1, <2>2, <3>1, <3>2, <3>3, <3>4, HeardInStep
    <3>6. g.rx.warm + u.tx_leadin >= RxWindow /\ ~(u.tx_leadin > 0)
      BY <3>1, <3>5, HalfFacts
    <3>. QED BY <3>1, <3>5, <3>6 DEF InStep
  <2>. QED BY <2>4, <2>5
<1>. QED BY <1>1, <1>2

\* A session and a far end as they begin; the lead-in is as long as the far end's window.
LEMMA StartInStep == RxWindow <= LeadIn => InStep(SessionStart, FarStart)
<1>. SUFFICES ASSUME RxWindow <= LeadIn PROVE InStep(SessionStart, FarStart)
  OBVIOUS
<1>1. /\ SessionStart.break_state = "idle" /\ SessionStart.tx = TxStart
      /\ SessionStart.tx_q = <<>> /\ SessionStart.tx_leadin = LeadIn
  BY DEF SessionStart
<1>2. /\ TxStart.state = "idle" /\ TxStart.index = 0 /\ TxStart.phase = 0 /\ TxStart.tone = TRUE
      /\ TxStart.break = FALSE
  BY DEF TxStart
<1>3. FramerOK(TxStart)
  BY StartOK, <1>1 DEF SessionOK
<1>4. Sends(TxStart)
  <2>1. InFrame("idle", 0) /\ Tone(TxStart.byte, "idle", 0) = TRUE /\ 0 \in 0..(BitSamples - 1)
    BY Sizes DEF InFrame, Tone
  <2>. QED BY <1>2, <1>3, <2>1 DEF Sends
<1>5. RxStart \in FarType /\ RxStart.warm = 0 /\ Idle(RxStart)
  <2>1. 0 \in 0..RxWindow
    BY HalfFacts
  <2>2. RxStart \in FarType
    BY <2>1 DEF RxStart, FarType
  <2>. QED BY <2>2 DEF RxStart, Idle
<1>6. FarStart \in FarEnd /\ FarStart.rx = RxStart /\ FarStart.owed = <<>>
  <2>1. FarStart.rx = RxStart /\ FarStart.owed = <<>>
    BY DEF FarStart
  <2>2. FarStart \in FarEnd
    BY <1>5 DEF FarStart, FarEnd
  <2>. QED BY <2>1, <2>2
<1>7. At(RxStart, TxStart.byte, TxStart.state, TxStart.index, TxStart.phase)
  BY <1>2, <1>5 DEF At
<1>8. Unread(TxStart, <<>>) = <<>>
  BY <1>2 DEF Unread
<1>9. RxStart.warm + LeadIn >= RxWindow
  BY <1>5, Sizes, HalfFacts
<1>. QED BY <1>1, <1>2, <1>4, <1>5, <1>6, <1>7, <1>8, <1>9 DEF InStep

\* Nothing else of a session_t matters.
LEMMA SameInStep ==
    ASSUME NEW t, NEW u, NEW f, InStep(t, f), u.break_state = t.break_state, u.tx = t.tx,
           u.tx_q = t.tx_q, u.tx_leadin = t.tx_leadin
    PROVE  InStep(u, f)
BY DEF InStep

\* What is queued, the far end is owed (modem_fsk.c:461, 484).
LEMMA QueuedInStep ==
    ASSUME NEW t, SessionOK(t), NEW f, InStep(t, f), NEW bytes \in Seq(Bytes)
    PROVE  InStep([t EXCEPT !.tx_q = @ \o bytes],
                  IF t.break_state = "idle" THEN [f EXCEPT !.owed = @ \o bytes] ELSE FarStart)
<1>. DEFINE queue == t.tx_q \o bytes
            u == [t EXCEPT !.tx_q = queue]
            owed == f.owed \o bytes
            g == [f EXCEPT !.owed = owed]
<1>1. u.break_state = t.break_state /\ u.tx = t.tx /\ u.tx_q = queue /\ u.tx_leadin = t.tx_leadin
  <2>. HIDE DEF queue
  <2>. QED BY DEF SessionOK
<1>. HIDE DEF u
<1>2. CASE t.break_state # "idle"
  <2>1. InStep(u, FarStart)
    BY <1>1, <1>2 DEF InStep
  <2>. QED BY <1>2, <2>1 DEF u, queue
<1>3. CASE t.break_state = "idle"
  <2>1. /\ Sends(t.tx) /\ f \in FarEnd
        /\ At(f.rx, t.tx.byte, t.tx.state, t.tx.index, t.tx.phase)
        /\ f.owed = Unread(t.tx, t.tx_q)
        /\ t.tx_leadin > 0 => t.tx.state = "idle"
        /\ f.rx.warm + t.tx_leadin >= RxWindow
    BY <1>3 DEF InStep
  <2>2. t.tx_q \in Seq(Bytes) /\ f.owed \in Seq(Bytes)
    BY <2>1 DEF SessionOK, FarEnd
  <2>3. owed \in Seq(Bytes)
    BY <2>2, ConcatProperties
  <2>4. owed = Unread(t.tx, queue)
    <3>1. CASE Unread(t.tx, t.tx_q) = t.tx_q /\ Unread(t.tx, queue) = queue
      BY <2>1, <3>1
    <3>2. CASE /\ t.tx.state # "idle" /\ Unread(t.tx, t.tx_q) = <<t.tx.byte>> \o t.tx_q
               /\ Unread(t.tx, queue) = <<t.tx.byte>> \o queue
      <4>1. t.tx.byte \in Bytes
        BY <2>1, <3>2 DEF Sends, FramerOK
      <4>2. <<t.tx.byte>> \in Seq(Bytes)
        BY <4>1
      <4>3. (<<t.tx.byte>> \o t.tx_q) \o bytes = <<t.tx.byte>> \o queue
        <5>. DEFINE first == <<t.tx.byte>>
        <5>1. first \in Seq(Bytes)
          BY <4>2
        <5>. HIDE DEF first
        <5>2. \A q \in Seq(Bytes) : (first \o q) \o bytes = first \o (q \o bytes)
          BY <5>1, ConcatAssociative
        <5>3. (first \o t.tx_q) \o bytes = first \o (t.tx_q \o bytes)
          BY <2>2, <5>2, Zenon
        <5>. QED BY <5>3 DEF first
      <4>. QED BY <2>1, <3>2, <4>3
    <3>. QED BY <3>1, <3>2 DEF Unread
  <2>. HIDE DEF owed, queue
  <2>5. g \in FarEnd /\ g.rx = f.rx /\ g.owed = owed
    <3>1. g \in FarEnd
      BY <2>1, <2>3 DEF FarEnd
    <3>2. g.rx = f.rx /\ g.owed = owed
      BY <2>1 DEF FarEnd
    <3>. QED BY <3>1, <3>2
  <2>. HIDE DEF g
  <2>6. InStep(u, g)
    BY <1>1, <1>3, <2>1, <2>4, <2>5 DEF InStep
  <2>. QED BY <1>3, <2>6 DEF u, g, owed, queue
<1>. QED BY <1>2, <1>3

\* A break, and what is queued behind it (modem_fsk.c:439-441).
LEMMA BrokenInStep ==
    ASSUME NEW t, SessionOK(t), NEW f, InStep(t, f), NEW bytes \in Seq(Bytes)
    PROVE  LET b == Broken(t)
           IN  InStep([b EXCEPT !.tx_q = @ \o bytes],
                      IF b.break_state = "idle" THEN [f EXCEPT !.owed = @ \o bytes] ELSE FarStart)
<1>1. CASE Broken(t) = t
  BY <1>1, QueuedInStep
<1>2. CASE Broken(t) = [t EXCEPT !.tx.break = TRUE, !.break_state = "active"]
  <2>. DEFINE b == Broken(t)
              queue == b.tx_q \o bytes
              u == [b EXCEPT !.tx_q = queue]
  <2>1. b.break_state = "active" /\ SessionOK(b)
    BY <1>2, BrokenOK DEF SessionOK
  <2>. HIDE DEF b, queue
  <2>2. u.break_state = "active"
    BY <2>1 DEF SessionOK
  <2>. HIDE DEF u
  <2>3. InStep(u, FarStart)
    BY <2>2 DEF InStep
  <2>. QED BY <2>1, <2>3 DEF u, b, queue
<1>. QED BY <1>1, <1>2 DEF Broken

\* A step that moves neither the session's queues and framer nor the far end.
LEMMA StepInStep ==
    QueueInv /\ InStepInv /\ RxWindow <= LeadIn /\ [Next]_vars => InStepInv'
<1>. SUFFICES ASSUME QueueInv, InStepInv, RxWindow <= LeadIn, [Next]_vars PROVE InStepInv'
  OBVIOUS
<1>1. SessionOK(s) /\ InStep(s, far)
  BY DEF QueueInv, InStepInv
<1>2. CASE UNCHANGED <<s, far>>
  BY <1>2 DEF InStepInv
<1>3. CASE Sample
  <2>1. PICK byte \in BOOLEAN, level \in Levels :
            /\ s' = ProcessSample(<<s, far>>, byte, level)[1]
            /\ far' = ProcessSample(<<s, far>>, byte, level)[2]
    BY <1>3 DEF Sample
  <2>2. level \in BOOLEAN
    BY <2>1 DEF Levels
  <2>3. InStep(ProcessSample(<<s, far>>, byte, level)[1], ProcessSample(<<s, far>>, byte, level)[2])
    BY <1>1, <2>2, SampleInStep
  <2>. QED BY <2>1, <2>3 DEF InStepInv
<1>4. CASE CarrierAndBanner
  <2>. DEFINE n == IF opt.banner /\ (~opt.wait_carrier \/ carrier_seen')
                   THEN Least(BannerLen - banner_sent, TxRoom) ELSE 0
              part == SubSeq(Banner, banner_sent + 1, banner_sent + n)
              b == Broken(s)
  <2>1. /\ s' = [b EXCEPT !.tx_q = @ \o part]
        /\ far' = IF b.break_state = "idle" THEN [far EXCEPT !.owed = @ \o part] ELSE FarStart
    BY <1>4 DEF CarrierAndBanner, Queue
  <2>2. part \in Seq(Bytes)
    BY BannerPart
  <2>. HIDE DEF part
  <2>3. InStep([b EXCEPT !.tx_q = @ \o part],
               IF b.break_state = "idle" THEN [far EXCEPT !.owed = @ \o part] ELSE FarStart)
    BY <1>1, <2>2, BrokenInStep
  <2>. HIDE DEF b
  <2>. QED BY <2>1, <2>3 DEF InStepInv
<1>5. CASE DataIn
  <2>1. CASE UNCHANGED <<s, far>>
    BY <2>1, <1>2
  <2>2. CASE \E n \in 1..Least(Len(waiting), room) : Queue(s, SubSeq(waiting, 1, n))
    <3>1. PICK n \in 1..Least(Len(waiting), room) : Queue(s, SubSeq(waiting, 1, n))
      BY <2>2
    <3>. DEFINE part == SubSeq(waiting, 1, n)
    <3>2. part \in Seq(Bytes)
      <4>1. waiting \in Seq(Bytes) /\ Len(waiting) \in Nat /\ room \in Nat
        BY Sizes DEF QueueInv, Outside, Place
      <4>2. n \in Nat /\ n <= Len(waiting)
        BY <4>1, LeastFacts
      <4>. QED BY <4>1, <4>2, PartFacts
    <3>3. /\ s' = [s EXCEPT !.tx_q = @ \o part]
          /\ far' = IF s.break_state = "idle" THEN [far EXCEPT !.owed = @ \o part] ELSE FarStart
      BY <3>1 DEF Queue
    <3>. HIDE DEF part
    <3>4. InStep([s EXCEPT !.tx_q = @ \o part],
                 IF s.break_state = "idle" THEN [far EXCEPT !.owed = @ \o part] ELSE FarStart)
      BY <1>1, <3>2, QueuedInStep
    <3>. QED BY <3>3, <3>4 DEF InStepInv
  <2>. QED BY <1>5, <2>1, <2>2 DEF DataIn
<1>6. CASE DataOut
  <2>1. far' = far
    BY <1>6 DEF DataOut
  <2>2. CASE s' = s
    BY <2>1, <2>2, <1>2
  <2>3. CASE \E left \in 0..(s.rx_q_len - 1) : s' = [s EXCEPT !.rx_q_len = left]
    <3>1. /\ s'.break_state = s.break_state /\ s'.tx = s.tx /\ s'.tx_q = s.tx_q
          /\ s'.tx_leadin = s.tx_leadin
      BY <1>1, <2>3 DEF SessionOK
    <3>2. InStep(s', far)
      BY <1>1, <3>1, SameInStep
    <3>. QED BY <2>1, <3>2 DEF InStepInv
  <2>. QED BY <1>6, <2>2, <2>3 DEF DataOut
<1>7. CASE Uncount
  <2>1. s' = SessionStart /\ far' = FarStart
    BY <1>7 DEF Uncount
  <2>. QED BY <2>1, StartInStep DEF InStepInv
<1>8. CASE Accept \/ Admit \/ OtherEnds \/ Start \/ Select \/ AudioIn \/ AudioOut \/ Dial
  BY <1>2, <1>8 DEF Accept, Admit, OtherEnds, Start, Select, AudioIn, AudioOut, Dial, session
<1>9. CASE DelayPasses \/ PcmArrives \/ HangUp \/ PeerWrites \/ PeerCloses
  BY <1>2, <1>9 DEF DelayPasses, PcmArrives, HangUp, PeerWrites, PeerCloses, session
<1>10. CASE UNCHANGED vars
  BY <1>2, <1>10 DEF vars, session
<1>. QED BY <1>3, <1>4, <1>5, <1>6, <1>7, <1>8, <1>9, <1>10 DEF Next, Loop

\* Whatever the framing, the sizes and the interleaving, until a break is sent a far end
\* reads banner and data as they were queued, if the lead-in is at least as long as its
\* receive window: no byte is lost, not the first, none is invented and none is changed.
THEOREM FarReads == RxWindow <= LeadIn => (Spec => []FarReadsInOrder)
<1>. SUFFICES ASSUME RxWindow <= LeadIn PROVE Spec => []FarReadsInOrder
  OBVIOUS
<1>1. Init => InStepInv
  BY StartInStep DEF Init, InStepInv
<1>2. QueueInv /\ InStepInv /\ [Next]_vars => InStepInv'
  BY StepInStep
<1>3. QueueInv /\ [Next]_vars => QueueInv'
  BY QueueKeeps
<1>4. InStepInv => FarReadsInOrder
  <2>1. far \in FarEnd => far.garbled = FALSE
    BY DEF FarEnd
  <2>2. FarStart.garbled = FALSE
    BY DEF FarStart
  <2>. QED BY <2>1, <2>2, Zenon DEF InStepInv, InStep, FarReadsInOrder
<1>. QED BY QueueInit, <1>1, <1>2, <1>3, <1>4, PTL DEF Spec
=============================================================================

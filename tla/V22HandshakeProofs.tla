------------------------- MODULE V22HandshakeProofs -------------------------
(***************************************************************************)
(* The start-up on a clean line comes to one rate for both modems, and no  *)
(* data is sent that the other side does not listen to.                    *)
(*                                                                         *)
(* A modem knows the other only by what it hears, a round trip late.  The  *)
(* invariant therefore numbers symbols.  Until the answerer has settled on *)
(* a rate it says what each side may have sent so far (Before).  The       *)
(* symbol with which it settles has number 0; of its k symbols the caller  *)
(* has heard u, the rest is on the line; the caller sends one for each it  *)
(* hears, and of these the answerer has heard v.  The state of a modem is  *)
(* a function of these numbers, and so is each symbol on the line          *)
(* (Settled).  A start-up is at 1200 (Slow) or at 2400 (Fast): only the    *)
(* answerer's choice of the course is left to chance, and the proofs show  *)
(* that the caller, from what it hears, takes the same.                    *)
(***************************************************************************)
EXTENDS V22Handshake, Integers, SequenceTheorems, TLAPS

-----------------------------------------------------------------------------
(* The invariant. *)

\* The fields of a modem.
IsModem(s) ==
    /\ s.calling \in BOOLEAN /\ s.max \in {1200, 2400} /\ s.busy \in BOOLEAN
    /\ s.lead \in Leads /\ s.settling \in Settlings /\ s.rate \in {0, 1200, 2400}
    /\ s.tx \in TxStages /\ s.tx_count \in Nat /\ s.rx \in RxStages /\ s.rx_count \in Nat
    /\ s.repeats \in Nat /\ s.last \in Signals /\ s.carrier \in BOOLEAN
    /\ s.sixteen_way \in BOOLEAN /\ s.acq \in Nat /\ s.settle \in Nat

Larger(i, j) == IF i > j THEN i ELSE j
All(l, set)  == \A p \in DOMAIN l : l[p] \in set
Tuned(s)     == s.carrier /\ s.acq >= WarmUp

\* The caller waits, in silence, for a steady signal.
CallerListens(c, lc) ==
    /\ c.tx = "silence" /\ ~c.sixteen_way
    /\ \/ ~c.carrier /\ c.rx = "acquisition" /\ c.rx_count = 0
       \/ /\ c.carrier /\ c.rx = "acquisition" /\ c.rate = 1200
          /\ c.acq < WarmUp => c.rx_count = 0
          /\ \A p \in DOMAIN lc : p + c.acq + c.rx_count >= c.lead => lc[p] = "U11"
       \/ /\ Tuned(c) /\ c.rx \in {"unscrambled_ones", "unscrambled_sustaining"} /\ c.rate = 1200
          /\ c.last = "U11" /\ All(lc, {"U11"})

\* The caller has answered it and waits for its end.
CallerAnswers(c) ==
    /\ Tuned(c) /\ c.rx = "unscrambled_sustaining" /\ c.last = "U11" /\ c.rate = 1200
    /\ ~c.sixteen_way /\ c.tx \in {"S1", "S11"}
    /\ c.tx = "S1" => c.tx_count < 60 /\ c.max = 2400

\* What the caller has sent so far begins at f.
Burst(c, la, f) ==
    /\ f <= Len(la) + 1
    /\ \A p \in DOMAIN la : /\ p < f => la[p] = "silence"
                            /\ p >= f => la[p] \in {"S1", "S11"}
                            /\ la[p] = "S1" => p < f + 60 /\ c.max = 2400
    /\ c.tx = "S1" => f + c.tx_count = Len(la) + 1

AnswererHears(c, a, f) ==
    \/ ~a.carrier /\ a.rx = "acquisition" /\ a.rx_count = 0 /\ a.lead < f
    \/ /\ a.carrier /\ a.rx = "acquisition" /\ a.rate = 1200
       /\ a.acq < WarmUp => a.rx_count = 0 /\ a.last # "S1"
       /\ f + a.acq + a.rx_count <= a.lead
       /\ a.last = "S1" => f + 60 > 0 /\ c.max = 2400
    \/ /\ Tuned(a) /\ a.rx = "scrambled_1200" /\ a.rate = 1200 /\ a.rx_count < 162
       /\ f + WarmUp + Acquire + a.rx_count <= a.lead
       /\ a.last = "S1" => f + 60 > 0 /\ c.max = 2400

\* The answerer has heard nothing.
AnswererWaits(a) == ~a.carrier /\ a.rx = "acquisition" /\ a.rx_count = 0

\* Silence up to some place and the steady signal from there.
Rising(lc) ==
    /\ All(lc, {"silence", "U11"})
    /\ \A p \in DOMAIN lc : \A q \in DOMAIN lc : p <= q /\ lc[p] = "U11" => lc[q] = "U11"

Listening(c, a, lc, la) ==
    /\ CallerListens(c, lc) /\ All(la, {"silence"}) /\ AnswererWaits(a) /\ Rising(lc)
    /\ a.tx = "silence" => All(lc, {"silence"}) /\ ~c.carrier

Answering(c, a, lc, la) ==
    /\ CallerAnswers(c) /\ All(lc, {"U11"}) /\ a.tx = "U11"
    /\ \E f \in Int : Burst(c, la, f) /\ AnswererHears(c, a, f)

\* Until the answerer has settled on a rate.
Before(c, a, lc, la) ==
    /\ a.tx \in {"silence", "U11"} /\ ~a.sixteen_way
    /\ Listening(c, a, lc, la) \/ Answering(c, a, lc, la)

Follows(l, signals, i) == \A p \in DOMAIN l : l[p] \in signals[i + p - 1]

SlowFromAnswerer ==
    [i \in Int |-> IF i < 0 THEN {"U11"} ELSE IF i < 453 THEN {"S11"} ELSE {"S11", "data_1200"}]
SlowFromCaller == [i \in Int |-> IF i < 615 THEN {"S1", "S11"} ELSE {"S11", "data_1200"}]
FastFromAnswerer ==
    [i \in Int |-> IF i < 0 THEN {"U11"} ELSE IF i < 60 THEN {"S1"} ELSE IF i < 360 THEN {"S11"}
                   ELSE IF i < 480 THEN {"S1111"} ELSE {"S1111", "data_2400"}]
FastFromCaller ==
    [i \in Int |-> IF i < 453 THEN {"S1", "S11"} ELSE IF i < 573 THEN {"S1111"}
                   ELSE {"S1111", "data_2400"}]

SlowAnswerer(a, k) ==
    /\ a.rate = 1200 /\ ~a.sixteen_way
    /\ IF k < 453 THEN a.tx = "timed_S11" /\ a.tx_count = k ELSE a.tx = "normal"
    /\ IF k <= 460 THEN a.rx = "scrambled_1200_sustaining" /\ a.rx_count = k + 161
                   ELSE a.rx = "normal"

SlowCaller(c, u) ==
    /\ c.rate = 1200 /\ ~c.sixteen_way
    /\ IF u <= 162
       THEN /\ c.rx = "scrambled_1200" /\ c.rx_count = u - 1 /\ c.last # "S1"
            /\ c.tx = "timed_S11" /\ c.tx_count = u
       ELSE /\ c.rx = "normal"
            /\ IF u < 615 THEN c.tx = "timed_S11" /\ c.tx_count = u - 162 ELSE c.tx = "normal"

\* Of n symbols at 2400 the equalizer takes the first settling.
Trained(s, n) ==
    \/ /\ s.rx = "wait_for_2400" /\ n < s.settling + OnesRepeats
       /\ s.settle = Larger(s.settling - n, 0) /\ s.repeats = Larger(n - s.settling, 0)
    \/ s.rx = "normal"

FastAnswerer(a, k, v) ==
    /\ a.rate = 2400 /\ a.max = 2400
    /\ k < 60 => a.tx = "S1" /\ a.tx_count = k
    /\ 60 <= k /\ k < 360 => a.tx = "timed_S11" /\ a.tx_count = k + 93
    /\ 360 <= k /\ k < 480 => a.tx = "S1111" /\ a.tx_count = k - 360
    /\ 480 <= k => a.tx = "normal"
    /\ a.sixteen_way => Trained(a, Larger(v - 453, 0))
    /\ ~a.sixteen_way => a.rx = "scrambled_1200" /\ a.rx_count >= k /\ a.rx_count < 270

FastCaller(c, u) ==
    /\ c.max = 2400
    /\ u < 453 => c.tx = "timed_S11" /\ c.tx_count = u
    /\ 453 <= u /\ u < 573 => c.tx = "S1111" /\ c.tx_count = u - 453
    /\ 573 <= u => c.tx = "normal"
    /\ u <= 60 => c.rate = 1200 /\ c.repeats = u - 1 /\ c.last = "S1"
    /\ u > 60 => c.rate = 2400
    /\ u <= 330 => ~c.sixteen_way /\ c.rx = "scrambled_1200" /\ c.rx_count = u - 1
    /\ u > 330 => c.sixteen_way /\ Trained(c, Larger(u - 360, 0))

\* The answerer has sent k symbols since, of which the caller has heard u.  The caller
\* sends one for each it hears, and of these the answerer has heard v.
Slow(c, a, lc, la, k, u, v) ==
    /\ SlowAnswerer(a, k) /\ (u > 0 => SlowCaller(c, u))
    /\ Follows(lc, SlowFromAnswerer, u) /\ Follows(la, SlowFromCaller, v)

Fast(c, a, lc, la, k, u, v) ==
    /\ FastAnswerer(a, k, v)
    /\ (u <= 0 => c.max = 2400) /\ (u > 0 => FastCaller(c, u))
    /\ Follows(lc, FastFromAnswerer, u) /\ Follows(la, FastFromCaller, v)

Settled(c, a, lc, la, k) ==
    LET u == k - Len(lc)
        v == u - Len(la)
    IN  /\ Tuned(a) /\ Tuned(c) /\ (u <= 0 => CallerAnswers(c))
        /\ Slow(c, a, lc, la, k, u, v) \/ Fast(c, a, lc, la, k, u, v)

After(c, a, lc, la) == \E k \in Nat \ {0} : Settled(c, a, lc, la, k)

Sized(c, a, lc, la, t) ==
    /\ lc \in Seq(Signals) /\ la \in Seq(Signals)
    /\ t = "calling" => Len(lc) > c.lead /\ Len(la) > a.lead
    /\ t = "answering" => Len(lc) >= c.lead /\ Len(la) > a.lead + 1

Training(c, a, lc, la, t) ==
    /\ IsModem(c) /\ IsModem(a) /\ c.calling /\ ~a.calling
    /\ Sized(c, a, lc, la, t) 
    /\ Before(c, a, lc, la) \/ After(c, a, lc, la)

TrainingInv ==
    /\ DOMAIN modem = Modems /\ DOMAIN line = Modems /\ turn \in Modems
    /\ fade \in [to : Modems \cup {"none"}, left : Nat]
    /\ Clean => Training(modem["calling"], modem["answering"],
                         line["calling"], line["answering"], turn)
-----------------------------------------------------------------------------
(* The modem. *)

\* The times of training_symbol and process_baud in symbols (v22bis_rx.c:163).
LEMMA Times ==
    /\ Symbols(75) = 45 /\ Symbols(100) = 60 /\ Symbols(756 - (600 - 100)) = 153
    /\ Symbols(756) = 453 /\ Symbols(200) = 120 /\ Symbols(155 + 456) = 366
    /\ Symbols(456) = 273 /\ Symbols(270) = 162 /\ Symbols(100 + 450) = 330
    /\ Symbols(450) = 270 /\ Symbols(270 + 765) = 621
BY TrainingAssumption DEF Symbols

\* The constants are natural numbers.
LEMMA Constants ==
    /\ WarmUp \in Nat /\ Acquire \in Nat /\ S1Repeats \in Nat /\ OnesRepeats \in Nat
    /\ \A n \in Leads : n \in Nat
    /\ \A n \in Settlings : n \in Nat
BY HandshakeAssumption DEF HandshakeAssumption

\* What a modem is set up with.
Same(s, t) ==
    /\ s.calling = t.calling /\ s.max = t.max /\ s.busy = t.busy
    /\ s.lead = t.lead /\ s.settling = t.settling

\* The receiver and what it decides.
SameRx(s, t) ==
    /\ Same(s, t) /\ s.rate = t.rate /\ s.rx = t.rx /\ s.rx_count = t.rx_count
    /\ s.repeats = t.repeats /\ s.last = t.last /\ s.carrier = t.carrier
    /\ s.sixteen_way = t.sixteen_way /\ s.acq = t.acq /\ s.settle = t.settle

\* The transmitter leaves the receiver alone.
LEMMA TransmitDoes ==
    ASSUME NEW s, IsModem(s)
    PROVE  LET t == Transmit(s)
           IN  /\ IsModem(t) /\ SameRx(t, s)
               /\ s.tx = "silence" /\ s.calling => t.tx = "silence"
               /\ s.tx = "silence" /\ ~s.calling => t.tx \in {"silence", "U11"}
               /\ s.tx \in {"U11", "S11", "normal"} => t.tx = s.tx
               /\ s.tx = "S1" /\ s.tx_count + 1 < 60 => t.tx = "S1" /\ t.tx_count = s.tx_count + 1
               /\ s.tx = "S1" /\ s.tx_count + 1 >= 60 /\ s.calling => t.tx = "S11"
               /\ s.tx = "S1" /\ s.tx_count + 1 >= 60 /\ ~s.calling =>
                     t.tx = "timed_S11" /\ t.tx_count = 153
               /\ s.tx = "timed_S11" /\ s.tx_count + 1 < 453 =>
                     t.tx = "timed_S11" /\ t.tx_count = s.tx_count + 1
               /\ s.tx = "timed_S11" /\ s.tx_count + 1 >= 453 /\ s.rate = 2400 =>
                     t.tx = "S1111" /\ t.tx_count = 0
               /\ s.tx = "timed_S11" /\ s.tx_count + 1 >= 453 /\ s.rate # 2400 => t.tx = "normal"
               /\ s.tx = "S1111" /\ s.tx_count + 1 < 120 =>
                     t.tx = "S1111" /\ t.tx_count = s.tx_count + 1
               /\ s.tx = "S1111" /\ s.tx_count + 1 >= 120 => t.tx = "normal"
BY Times DEF Transmit, TxTimed, IsModem, TxStages, SameRx, Same

\* What goes to the line.
LEMMA SentIs ==
    ASSUME NEW s, IsModem(s)
    PROVE  /\ Sent(s) \in Signals
           /\ s.tx \in {"silence", "U11", "S1", "S11", "S1111"} => Sent(s) = s.tx
           /\ s.tx = "timed_S11" => Sent(s) = "S11"
           /\ s.tx = "normal" /\ s.rate = 1200 => Sent(s) \in {"S11", "data_1200"}
           /\ s.tx = "normal" /\ s.rate = 2400 => Sent(s) \in {"S1111", "data_2400"}
BY DEF Sent, IsModem, TxStages, Signals, Data

\* Every stage of the receiver decides on its own.
LEMMA ByStage ==
    ASSUME NEW s, NEW signal
    PROVE  /\ s.rx = "acquisition" => ProcessBaud(s, signal) = [AcquireTiming(s) EXCEPT !.last = signal]
           /\ s.rx = "unscrambled_ones" =>
                 ProcessBaud(s, signal) = [UnscrambledOnes(s, signal) EXCEPT !.last = signal]
           /\ s.rx = "unscrambled_sustaining" =>
                 ProcessBaud(s, signal) = [UnscrambledSustaining(s, signal) EXCEPT !.last = signal]
           /\ s.rx = "scrambled_1200" =>
                 ProcessBaud(s, signal) = [Scrambled1200(s, signal) EXCEPT !.last = signal]
           /\ s.rx = "scrambled_1200_sustaining" =>
                 ProcessBaud(s, signal) = [Scrambled1200Sustaining(s) EXCEPT !.last = signal]
           /\ s.rx = "wait_for_2400" =>
                 ProcessBaud(s, signal) = [WaitFor2400(s, signal) EXCEPT !.last = signal]
           /\ s.rx = "normal" => ProcessBaud(s, signal) = [s EXCEPT !.last = signal]
BY DEF ProcessBaud

\* The answerer answers the end of an S1.
LEMMA WatchDoes ==
    ASSUME NEW s, IsModem(s), NEW signal
    PROVE  LET t == WatchForS1(s, signal)
           IN  /\ IsModem(t) /\ Same(t, s)
               /\ t.rx = s.rx /\ t.rx_count = s.rx_count /\ t.carrier = s.carrier
               /\ t.acq = s.acq /\ t.sixteen_way = s.sixteen_way /\ t.settle = s.settle
               /\ t.last = s.last
               /\ Alternating(s, signal) => t.repeats = s.repeats + 1
               /\ S1Seen(s, signal) => t.rate = 2400
               /\ ~S1Seen(s, signal) => t.rate = s.rate
               /\ S1Seen(s, signal) /\ ~s.calling => t.tx = "S1" /\ t.tx_count = 0
               /\ ~(S1Seen(s, signal) /\ ~s.calling) => t.tx = s.tx /\ t.tx_count = s.tx_count
<1>. DEFINE n == IF Alternating(s, signal) THEN s.repeats + 1 ELSE 0
            rate == IF S1Seen(s, signal) THEN 2400 ELSE s.rate
            t == [s EXCEPT !.repeats = n, !.rate = rate]
<1>1. n \in Nat /\ rate \in {0, 1200, 2400}
  BY DEF IsModem
<1>2. CASE S1Seen(s, signal) /\ ~s.calling
  <2>1. WatchForS1(s, signal) = [[s EXCEPT !.repeats = n, !.rate = rate]
                                    EXCEPT !.tx = "S1", !.tx_count = 0]
    BY <1>2 DEF WatchForS1, TxTo
  <2>2. (Alternating(s, signal) => n = s.repeats + 1) /\ rate = 2400
    BY <1>2
  <2>. HIDE DEF n, rate
  <2>. QED BY <1>1, <1>2, <2>1, <2>2 DEF IsModem, Same, TxStages
<1>3. CASE ~(S1Seen(s, signal) /\ ~s.calling)
  <2>1. WatchForS1(s, signal) = [s EXCEPT !.repeats = n, !.rate = rate]
    BY <1>3 DEF WatchForS1, TxTo
  <2>2. /\ Alternating(s, signal) => n = s.repeats + 1
        /\ S1Seen(s, signal) => rate = 2400
        /\ ~S1Seen(s, signal) => rate = s.rate
    OBVIOUS
  <2>. HIDE DEF n, rate
  <2>. QED BY <1>1, <1>3, <2>1, <2>2 DEF IsModem, Same
<1>. QED BY <1>2, <1>3

\* SCRAMBLED_ONES_AT_1200: the count, what may come of it, and when.
Counted(s) == [s EXCEPT !.rx_count = @ + 1]
Watched(s, signal) == WatchForS1(Counted(s), signal)
FallBack(s, signal) ==
    [TxTo(Watched(s, signal), "timed_S11") EXCEPT
        !.rx = IF Counted(s).calling THEN "normal" ELSE "scrambled_1200_sustaining"]
GoOn(s) == [Counted(s) EXCEPT !.sixteen_way = TRUE, !.repeats = 0, !.rx = "wait_for_2400",
                               !.settle = Counted(s).settling]
Due(s) == IF s.calling THEN 330 ELSE 270

\* Which of the four the stage does, by the rate and the count (v22bis_rx.c:249).
LEMMA ScrambledIs ==
    ASSUME NEW s, IsModem(s), NEW signal
    PROVE  LET t == Scrambled1200(s, signal)
           IN  /\ s.rate = 1200 /\ s.rx_count + 1 >= 162 => t = FallBack(s, signal)
               /\ s.rate = 1200 /\ s.rx_count + 1 < 162  => t = Watched(s, signal)
               /\ s.rate = 2400 /\ s.rx_count + 1 >= Due(s) => t = GoOn(s)
               /\ s.rate = 2400 /\ s.rx_count + 1 < Due(s)  => t = Counted(s)
               /\ s.rate = 0 => t = Counted(s)
<1>. DEFINE r == Counted(s)
            due == IF r.calling THEN Symbols(100 + 450) ELSE Symbols(450)
<1>1. r.rate = s.rate /\ r.calling = s.calling /\ r.rx_count = s.rx_count + 1
  BY DEF Counted
<1>2. Scrambled1200(s, signal) =
        CASE r.rate = 1200 /\ r.rx_count >= Symbols(270) -> FallBack(s, signal)
          [] r.rate = 1200 /\ r.rx_count < Symbols(270)  -> Watched(s, signal)
          [] r.rate = 2400 /\ r.rx_count >= due          -> GoOn(s)
          [] OTHER -> r
  BY DEF Scrambled1200, Counted, FallBack, Watched, GoOn
<1>3. due = Due(s) /\ Symbols(270) = 162
  BY <1>1, Times DEF Due
<1>4. s.rx_count \in Nat /\ Due(s) \in Nat /\ s.rate \in {0, 1200, 2400}
  BY DEF IsModem, Due
<1>. HIDE DEF due, r
<1>5. LET t == Scrambled1200(s, signal)
      IN  /\ s.rate = 1200 /\ s.rx_count + 1 >= 162 => t = FallBack(s, signal)
          /\ s.rate = 1200 /\ s.rx_count + 1 < 162  => t = Watched(s, signal)
          /\ s.rate = 2400 /\ s.rx_count + 1 >= Due(s) => t = GoOn(s)
          /\ s.rate = 2400 /\ s.rx_count + 1 < Due(s)  => t = r
          /\ s.rate = 0 => t = r
  BY <1>1, <1>2, <1>3, <1>4
<1>. QED BY <1>5 DEF r

\* The same for the count and the watch together (v22bis_rx.c:255).
LEMMA WatchedDoes ==
    ASSUME NEW s, IsModem(s), NEW signal
    PROVE  LET t == Watched(s, signal)
           IN  /\ IsModem(t) /\ Same(t, s)
               /\ t.rx = s.rx /\ t.rx_count = s.rx_count + 1 /\ t.carrier = s.carrier
               /\ t.acq = s.acq /\ t.sixteen_way = s.sixteen_way
               /\ Alternating(s, signal) => t.repeats = s.repeats + 1
               /\ S1Seen(s, signal) => t.rate = 2400
               /\ ~S1Seen(s, signal) => t.rate = s.rate
               /\ S1Seen(s, signal) /\ ~s.calling => t.tx = "S1" /\ t.tx_count = 0
               /\ ~(S1Seen(s, signal) /\ ~s.calling) => t.tx = s.tx /\ t.tx_count = s.tx_count
<1>. DEFINE r == Counted(s)
<1>1. /\ IsModem(r) /\ Same(r, s) /\ r.rx = s.rx /\ r.rx_count = s.rx_count + 1
      /\ r.carrier = s.carrier /\ r.acq = s.acq /\ r.sixteen_way = s.sixteen_way
      /\ r.repeats = s.repeats /\ r.rate = s.rate /\ r.tx = s.tx /\ r.tx_count = s.tx_count
  BY DEF IsModem, Same, Counted
<1>2. Alternating(r, signal) = Alternating(s, signal) /\ S1Seen(r, signal) = S1Seen(s, signal)
  BY DEF Alternating, S1Seen, Counted
<1>. HIDE DEF r
<1>3. LET t == WatchForS1(r, signal)
           IN  /\ IsModem(t) /\ Same(t, r)
               /\ t.rx = r.rx /\ t.rx_count = r.rx_count /\ t.carrier = r.carrier
               /\ t.acq = r.acq /\ t.sixteen_way = r.sixteen_way
               /\ Alternating(r, signal) => t.repeats = r.repeats + 1
               /\ S1Seen(r, signal) => t.rate = 2400
               /\ ~S1Seen(r, signal) => t.rate = r.rate
               /\ S1Seen(r, signal) /\ ~r.calling => t.tx = "S1" /\ t.tx_count = 0
               /\ ~(S1Seen(r, signal) /\ ~r.calling) => t.tx = r.tx /\ t.tx_count = r.tx_count
  BY <1>1, WatchDoes
<1>4. Watched(s, signal) = WatchForS1(r, signal)
  BY DEF Watched, r
<1>. QED BY <1>1, <1>2, <1>3, <1>4 DEF Same

\* The stage keeps a modem a modem.
LEMMA ScrambledTyped ==
    ASSUME NEW s, IsModem(s), NEW signal
    PROVE  LET t == Scrambled1200(s, signal) IN IsModem(t) /\ Same(t, s)
<1>. DEFINE w == Watched(s, signal)
<1>1. IsModem(Counted(s)) /\ Same(Counted(s), s)
  BY DEF IsModem, Same, Counted
<1>2. IsModem(w) /\ Same(w, s)
  BY WatchedDoes
<1>3. IsModem(FallBack(s, signal)) /\ Same(FallBack(s, signal), s)
  <2>. DEFINE x == IF Counted(s).calling THEN "normal" ELSE "scrambled_1200_sustaining"
  <2>1. x \in RxStages
    BY DEF RxStages
  <2>2. FallBack(s, signal) = [TxTo(w, "timed_S11") EXCEPT !.rx = x]
    BY DEF FallBack
  <2>. HIDE DEF x, w
  <2>. QED BY <1>2, <2>1, <2>2 DEF IsModem, Same, TxStages, TxTo
<1>4. IsModem(GoOn(s)) /\ Same(GoOn(s), s)
  <2>1. s.settling \in Nat
    BY Constants DEF IsModem
  <2>. QED BY <2>1 DEF GoOn, Counted, IsModem, Same, RxStages
<1>5. s.rate \in {0, 1200, 2400} /\ s.rx_count \in Nat /\ Due(s) \in Nat
  BY DEF IsModem, Due
<1>6. \/ Scrambled1200(s, signal) = FallBack(s, signal)
      \/ Scrambled1200(s, signal) = w
      \/ Scrambled1200(s, signal) = GoOn(s)
      \/ Scrambled1200(s, signal) = Counted(s)
  BY <1>5, ScrambledIs
<1>. HIDE DEF w
<1>. QED BY <1>1, <1>2, <1>3, <1>4, <1>6

\* So does every decision (v22bis_rx.c:191).
LEMMA BaudTyped ==
    ASSUME NEW s, IsModem(s), NEW signal \in Signals
    PROVE  LET t == ProcessBaud(s, signal) IN IsModem(t) /\ Same(t, s)
<1>1. LET t == AcquireTiming(s) IN IsModem(t) /\ Same(t, s)
  BY DEF AcquireTiming, RxTo, IsModem, Same, RxStages
<1>2. LET t == UnscrambledOnes(s, signal) IN IsModem(t) /\ Same(t, s)
  BY Times DEF UnscrambledOnes, RxTo, TxTo, IsModem, Same, RxStages, TxStages
<1>3. LET t == UnscrambledSustaining(s, signal) IN IsModem(t) /\ Same(t, s)
  BY DEF UnscrambledSustaining, RxTo, TxTo, IsModem, Same, RxStages, TxStages
<1>4. LET t == Scrambled1200Sustaining(s) IN IsModem(t) /\ Same(t, s)
  BY Times DEF Scrambled1200Sustaining, IsModem, Same, RxStages
<1>5. LET t == WaitFor2400(s, signal) IN IsModem(t) /\ Same(t, s)
  BY DEF WaitFor2400, IsModem, Same, RxStages
<1>6. \A t : IsModem(t) /\ Same(t, s) =>
          IsModem([t EXCEPT !.last = signal]) /\ Same([t EXCEPT !.last = signal], s)
  BY DEF IsModem, Same
<1>7. s.rx \in RxStages
  BY DEF IsModem
<1>8. IsModem(s) /\ Same(s, s)
  BY DEF Same
<1>. QED BY <1>1, <1>2, <1>3, <1>4, <1>5, <1>6, <1>7, <1>8, ByStage, ScrambledTyped DEF RxStages

\* What a symbol does to the receiver, by level and carrier (v22bis_rx.c:382).
LEMMA ReceiveIs ==
    ASSUME NEW s, NEW level, NEW signal
    PROVE  /\ ~level => Receive(s, level, signal) = [s EXCEPT !.carrier = FALSE]
           /\ level /\ ~s.carrier => Receive(s, level, signal) = AcquireReset(s)
           /\ level /\ s.carrier /\ s.acq < WarmUp =>
                 Receive(s, level, signal) = [s EXCEPT !.acq = @ + 1]
           /\ level /\ s.carrier /\ ~(s.acq < WarmUp) =>
                 Receive(s, level, signal) = ProcessBaud(s, signal)
BY DEF Receive

\* A turn keeps a modem a modem and sends a signal.
LEMMA TurnTyped ==
    ASSUME NEW s, IsModem(s), NEW level \in BOOLEAN, NEW signal \in Signals
    PROVE  LET h == Receive(s, level, signal)
           IN  /\ IsModem(h) /\ Same(h, s) /\ IsModem(Transmit(h)) /\ Same(Transmit(h), s)
               /\ Sent(h) \in Signals
<1>1. IsModem(Receive(s, level, signal)) /\ Same(Receive(s, level, signal), s)
  <2>1. IsModem([s EXCEPT !.carrier = FALSE]) /\ Same([s EXCEPT !.carrier = FALSE], s)
    BY DEF IsModem, Same
  <2>2. IsModem(AcquireReset(s)) /\ Same(AcquireReset(s), s)
    BY DEF AcquireReset, RxTo, IsModem, Same, RxStages, Signals
  <2>3. IsModem([s EXCEPT !.acq = @ + 1]) /\ Same([s EXCEPT !.acq = @ + 1], s)
    BY DEF IsModem, Same
  <2>4. IsModem(ProcessBaud(s, signal)) /\ Same(ProcessBaud(s, signal), s)
    BY BaudTyped
  <2>5. \/ Receive(s, level, signal) = [s EXCEPT !.carrier = FALSE]
        \/ Receive(s, level, signal) = AcquireReset(s)
        \/ Receive(s, level, signal) = [s EXCEPT !.acq = @ + 1]
        \/ Receive(s, level, signal) = ProcessBaud(s, signal)
    BY ReceiveIs
  <2>. QED BY <2>1, <2>2, <2>3, <2>4, <2>5
<1>. QED BY <1>1, TransmitDoes, SentIs DEF SameRx, Same

\* What a receiver with a carrier does.
LEMMA Hears ==
    ASSUME NEW s, IsModem(s), Tuned(s), NEW signal
    PROVE  Receive(s, TRUE, signal) = ProcessBaud(s, signal)
<1>1. s.carrier /\ ~(s.acq < WarmUp)
  BY Constants DEF Tuned, IsModem
<1>. QED BY <1>1, ReceiveIs

\* The wait for ones at 2400, one symbol after another.
LEMMA TrainedOn ==
    ASSUME NEW s, IsModem(s), NEW n \in Nat, Trained(s, n), NEW signal
    PROVE  LET t == ProcessBaud(s, signal)
           IN  /\ signal = "S1111" => Trained(t, n + 1)
               /\ signal \notin {"S1111", "data_2400"} /\ n = 0 => Trained(t, 0)
               /\ n >= 120 => t.rx = "normal"
               /\ t.rate = s.rate /\ t.sixteen_way = s.sixteen_way /\ t.tx = s.tx
               /\ t.tx_count = s.tx_count /\ t.carrier = s.carrier /\ t.acq = s.acq
<1>. DEFINE t == ProcessBaud(s, signal)
            kept == /\ t.rate = s.rate /\ t.sixteen_way = s.sixteen_way /\ t.tx = s.tx
                    /\ t.tx_count = s.tx_count /\ t.carrier = s.carrier /\ t.acq = s.acq
            goal == /\ signal = "S1111" => Trained(t, n + 1)
                    /\ signal \notin {"S1111", "data_2400"} /\ n = 0 => Trained(t, 0)
                    /\ n >= 120 => t.rx = "normal"
                    /\ kept
<1>1. /\ s.settling \in Nat /\ s.settling + OnesRepeats <= 120
      /\ OnesRepeats \in Nat /\ OnesRepeats > 0
  BY Constants, Times, TrainingAssumption DEF IsModem
<1>2. CASE s.rx = "normal"
  <2>1. t = [s EXCEPT !.last = signal]
    BY <1>2, ByStage
  <2>. QED BY <1>2, <2>1 DEF Trained
<1>3. CASE s.rx # "normal"
  <2>1. /\ s.rx = "wait_for_2400" /\ n < s.settling + OnesRepeats
        /\ s.settle = Larger(s.settling - n, 0) /\ s.repeats = Larger(n - s.settling, 0)
    BY <1>3 DEF Trained
  <2>2. t = [WaitFor2400(s, signal) EXCEPT !.last = signal]
    BY <2>1, ByStage
  <2>3. n < 120
    BY <1>1, <2>1
  <2>. HIDE DEF t
  <2>4. CASE signal = "S1111" /\ n < s.settling
    <3>1. ~Ones(s, signal) /\ s.settle > 0 /\ s.settle = s.settling - n
      BY <1>1, <2>1, <2>4 DEF Ones, Larger
    <3>2. t = [s EXCEPT !.repeats = 0, !.settle = @ - 1, !.last = signal]
      BY <2>2, <2>4, <3>1 DEF WaitFor2400
    <3>3. /\ kept /\ t.rx = s.rx /\ t.settling = s.settling /\ t.repeats = 0
          /\ t.settle = s.settle - 1
      BY <3>2
    <3>4. Trained(t, n + 1)
      BY <1>1, <2>1, <2>4, <3>1, <3>3 DEF Trained, Larger
    <3>. QED BY <2>3, <2>4, <3>3, <3>4 DEF t
  <2>5. CASE signal = "S1111" /\ n >= s.settling
    <3>1. Ones(s, signal) /\ s.repeats = n - s.settling /\ s.settle = 0
      BY <1>1, <2>1, <2>5 DEF Ones, Larger
    <3>2. /\ kept /\ t.settling = s.settling /\ t.repeats = s.repeats + 1 /\ t.settle = s.settle
          /\ t.rx = (IF s.repeats + 1 >= OnesRepeats THEN "normal" ELSE s.rx)
      BY <2>2, <3>1 DEF WaitFor2400
    <3>3. Trained(t, n + 1)
      BY <1>1, <2>1, <2>5, <3>1, <3>2 DEF Trained, Larger
    <3>. QED BY <2>3, <2>5, <3>2, <3>3 DEF t
  <2>6. CASE signal # "S1111"
    <3>1. ~Ones(s, signal)
      BY <2>6 DEF Ones
    <3>2. /\ kept /\ t.settling = s.settling /\ t.repeats = 0 /\ t.rx = s.rx
          /\ signal # "data_2400" => t.settle = s.settle
      BY <2>2, <2>6, <3>1 DEF WaitFor2400
    <3>3. signal # "data_2400" /\ n = 0 => Trained(t, 0)
      BY <1>1, <2>1, <3>2 DEF Trained, Larger
    <3>. QED BY <2>3, <2>6, <3>2, <3>3 DEF t
  <2>. QED BY <1>1, <2>4, <2>5, <2>6
<1>. QED BY <1>2, <1>3

-----------------------------------------------------------------------------
(* The line. *)

\* What is left of the line when its first symbol is taken.
LEMMA Shift ==
    ASSUME NEW l \in Seq(Signals), Len(l) > 0
    PROVE  /\ Tail(l) \in Seq(Signals) /\ Len(Tail(l)) = Len(l) - 1
           /\ \A p \in DOMAIN Tail(l) :
                 p \in Nat /\ p > 0 /\ p + 1 \in DOMAIN l /\ Tail(l)[p] = l[p + 1]
           /\ 1 \in DOMAIN l /\ Head(l) = l[1] /\ Head(l) \in Signals
OBVIOUS

\* What it becomes when one is added.
LEMMA Push ==
    ASSUME NEW l \in Seq(Signals), NEW x \in Signals
    PROVE  LET m == Append(l, x)
           IN  /\ m \in Seq(Signals) /\ Len(m) = Len(l) + 1
               /\ \A p \in DOMAIN m : \/ p = Len(l) + 1 /\ m[p] = x
                                      \/ p \in DOMAIN l /\ m[p] = l[p]
OBVIOUS

\* The places of a line and what is there.
LEMMA Places ==
    ASSUME NEW l \in Seq(Signals)
    PROVE  /\ Len(l) \in Nat
           /\ \A p \in DOMAIN l : p \in Nat /\ p > 0 /\ p <= Len(l) /\ l[p] \in Signals
           /\ \A p \in Nat : p > 0 /\ p <= Len(l) => p \in DOMAIN l
OBVIOUS

-----------------------------------------------------------------------------
(* The caller. *)

\* Until it answers the caller is silent.
LEMMA CallerListensOn ==
    ASSUME NEW c, IsModem(c), c.calling, NEW lc \in Seq(Signals), Len(lc) > c.lead,
           CallerListens(c, lc), Rising(lc)
    PROVE  LET h == Receive(c, lc[1 + c.lead] # "silence", Head(lc))
               s == Transmit(h)
           IN  \/ /\ CallerListens(s, Tail(lc)) /\ Sent(h) = "silence"
                  /\ ~c.carrier /\ All(lc, {"silence"}) => ~s.carrier
               \/ /\ CallerAnswers(s) /\ All(lc, {"U11"}) /\ c.carrier
                  /\ Sent(h) \in {"S1", "S11"} /\ s.tx = Sent(h)
                  /\ s.tx = "S1" => s.tx_count = 1
<1>. DEFINE level == lc[1 + c.lead] # "silence"
            sig == Head(lc)
            h == Receive(c, level, sig)
            s == Transmit(h)
            quiet == CallerListens(s, Tail(lc)) /\ Sent(h) = "silence"
            answer == /\ CallerAnswers(s) /\ Sent(h) \in {"S1", "S11"} /\ s.tx = Sent(h)
                      /\ s.tx = "S1" => s.tx_count = 1
<1>1. /\ c.lead \in Nat /\ 1 + c.lead \in DOMAIN lc /\ Len(lc) > 0
      /\ c.lead <= WarmUp + Acquire
      /\ c.acq \in Nat /\ c.rx_count \in Nat /\ c.carrier \in BOOLEAN /\ c.tx_count \in Nat
  <2>1. c.lead \in Nat /\ c.lead <= WarmUp + Acquire
    BY Constants, TrainingAssumption DEF IsModem
  <2>. QED BY <2>1, Places DEF IsModem
<1>2. IsModem(h) /\ h.calling
  <2>1. level \in BOOLEAN /\ Head(lc) \in Signals
    BY <1>1, Shift
  <2>. QED BY <2>1, TurnTyped DEF Same
<1>3. /\ SameRx(s, h)
      /\ h.tx = "silence" => s.tx = "silence" /\ Sent(h) = "silence"
      /\ h.tx = "S11" => s.tx = "S11" /\ Sent(h) = "S11"
      /\ h.tx = "S1" /\ h.tx_count = 0 => s.tx = "S1" /\ s.tx_count = 1 /\ Sent(h) = "S1"
  BY <1>2, TransmitDoes, SentIs
<1>. HIDE DEF h, s, level, sig
<1>4. CASE ~c.carrier /\ c.rx = "acquisition" /\ c.rx_count = 0 /\ ~level
  <2>1. h = [c EXCEPT !.carrier = FALSE]
    BY <1>4, ReceiveIs DEF h
  <2>2. ~h.carrier /\ h.rx = "acquisition" /\ h.rx_count = 0 /\ h.tx = c.tx /\ ~h.sixteen_way
    BY <1>4, <2>1 DEF CallerListens
  <2>3. quiet /\ ~s.carrier
    BY <1>3, <2>2 DEF CallerListens, SameRx
  <2>. QED BY <2>3 DEF h, s, level, sig
<1>5. CASE ~c.carrier /\ level
  <2>1. h = AcquireReset(c)
    BY <1>5, ReceiveIs DEF h
  <2>2. h.carrier /\ h.rx = "acquisition" /\ h.rx_count = 0 /\ h.acq = 0 /\ h.rate = 1200
        /\ h.tx = c.tx /\ ~h.sixteen_way /\ h.lead = c.lead
    BY <2>1 DEF AcquireReset, RxTo
  <2>3. lc[1 + c.lead] = "U11"
    BY <1>1, <1>5 DEF Rising, All, level
  <2>4. \A p \in DOMAIN Tail(lc) : p >= c.lead => Tail(lc)[p] = "U11"
    BY <1>1, <2>3, Shift DEF Rising
  <2>5. CallerListens(s, Tail(lc)) /\ Sent(h) = "silence"
    BY <1>1, <1>3, <2>2, <2>4, Shift DEF CallerListens, SameRx, Same
  <2>6. ~All(lc, {"silence"})
    BY <1>1, <2>3 DEF All
  <2>. QED BY <2>5, <2>6 DEF h, s, level, sig
<1>6. ASSUME c.carrier, NEW i \in Nat, i <= c.lead + 1, \A p \in DOMAIN lc : p >= i => lc[p] = "U11"
      PROVE  level /\ (i <= 1 => sig = "U11" /\ All(lc, {"U11"}) /\ All(Tail(lc), {"U11"}))
  <2>1. level
    BY <1>1, <1>6 DEF level
  <2>2. ASSUME i <= 1 PROVE All(lc, {"U11"})
    BY <1>6, <2>2, Places DEF All
  <2>3. ASSUME i <= 1 PROVE sig = "U11" /\ All(Tail(lc), {"U11"})
    BY <1>1, <2>2, <2>3, Shift DEF All, sig
  <2>. QED BY <2>1, <2>2, <2>3
<1>7. CASE /\ c.carrier /\ c.rx = "acquisition" /\ c.rate = 1200
           /\ c.acq < WarmUp => c.rx_count = 0
           /\ \A p \in DOMAIN lc : p + c.acq + c.rx_count >= c.lead => lc[p] = "U11"
  <2>1. level
    <3>1. 1 + c.lead + c.acq + c.rx_count >= c.lead
      BY <1>1
    <3>2. lc[1 + c.lead] = "U11"
      BY <1>1, <1>7, <3>1
    <3>. QED BY <3>2 DEF level
  <2>2. CASE c.acq < WarmUp
    <3>1. h = [c EXCEPT !.acq = @ + 1]
      <4>1. c.carrier
        BY <1>7
      <4>. QED BY <2>1, <2>2, <4>1, ReceiveIs DEF h
    <3>2. /\ h.carrier = c.carrier /\ h.rx = c.rx /\ h.rx_count = c.rx_count /\ h.acq = c.acq + 1
          /\ h.rate = c.rate /\ h.tx = c.tx /\ h.sixteen_way = c.sixteen_way /\ h.lead = c.lead
      BY <3>1
    <3>3. \A p \in DOMAIN Tail(lc) : p + h.acq + h.rx_count >= c.lead => Tail(lc)[p] = "U11"
      BY <1>1, <1>7, <3>2, Shift, SMTT(30)
    <3>4. quiet
      BY <1>1, <1>3, <1>7, <2>2, <3>2, <3>3 DEF CallerListens, SameRx, Same
    <3>. QED BY <1>7, <3>4 DEF h, s, level, sig
  <2>3. CASE ~(c.acq < WarmUp)
    <3>0. h = ProcessBaud(c, sig)
      <4>1. c.carrier
        BY <1>7
      <4>. QED BY <2>1, <2>3, <4>1, ReceiveIs DEF h
    <3>1. h = [AcquireTiming(c) EXCEPT !.last = sig]
      BY <1>7, <3>0, ByStage
    <3>2. CASE c.rx_count + 1 < Acquire
      <4>1. h = [c EXCEPT !.rx_count = @ + 1, !.last = sig]
        <5>1. ~(c.rx_count + 1 >= Acquire)
          BY <1>1, <3>2, Constants
        <5>. QED BY <3>1, <5>1 DEF AcquireTiming
      <4>2. /\ h.carrier = c.carrier /\ h.rx = c.rx /\ h.rx_count = c.rx_count + 1
            /\ h.acq = c.acq /\ h.rate = c.rate /\ h.tx = c.tx
            /\ h.sixteen_way = c.sixteen_way /\ h.lead = c.lead
        BY <4>1
      <4>3. \A p \in DOMAIN Tail(lc) : p + h.acq + h.rx_count >= c.lead => Tail(lc)[p] = "U11"
        <5>. SUFFICES ASSUME NEW p \in DOMAIN Tail(lc), p + h.acq + h.rx_count >= c.lead
                      PROVE  Tail(lc)[p] = "U11"
          OBVIOUS
        <5>1. p \in Nat /\ p + 1 \in DOMAIN lc /\ Tail(lc)[p] = lc[p + 1]
          BY <1>1, Shift
        <5>2. p + 1 + c.acq + c.rx_count >= c.lead
          BY <1>1, <4>2, <5>1, SMTT(30)
        <5>. QED BY <1>7, <5>1, <5>2
      <4>4. quiet
        BY <1>1, <1>3, <1>7, <2>3, <4>2, <4>3 DEF CallerListens, SameRx, Same
      <4>. QED BY <1>7, <4>4 DEF h, s, level, sig
    <3>3. CASE c.rx_count + 1 >= Acquire
      <4>1. /\ h.carrier = c.carrier /\ h.rx = "unscrambled_ones" /\ h.acq = c.acq
            /\ h.rate = 1200 /\ h.tx = c.tx /\ h.sixteen_way = c.sixteen_way
            /\ h.last = sig
        BY <3>1, <3>3 DEF AcquireTiming, RxTo
      <4>2. \A p \in DOMAIN lc : p >= 1 => lc[p] = "U11"
        BY <1>1, <1>7, <2>3, <3>3, Constants, Places, SMTT(30)
      <4>3. sig = "U11" /\ All(Tail(lc), {"U11"})
        BY <1>1, <1>6, <1>7, <4>2
      <4>4. quiet
        BY <1>1, <1>3, <1>7, <2>3, <4>1, <4>3, Constants DEF CallerListens, SameRx, Tuned
      <4>. QED BY <1>7, <4>4 DEF h, s, level, sig
    <3>. QED BY <1>1, <3>2, <3>3, Constants
  <2>. QED BY <2>2, <2>3
<1>8. CASE /\ Tuned(c) /\ c.rx \in {"unscrambled_ones", "unscrambled_sustaining"}
           /\ c.rate = 1200 /\ c.last = "U11" /\ All(lc, {"U11"})
  <2>1. level /\ sig = "U11" /\ All(Tail(lc), {"U11"})
    <3>1. c.carrier /\ 0 \in Nat /\ 0 <= c.lead + 1 /\ \A p \in DOMAIN lc : p >= 0 => lc[p] = "U11"
      BY <1>1, <1>8 DEF All, Tuned
    <3>. QED BY <1>6, <3>1
  <2>2. h = ProcessBaud(c, "U11")
    <3>1. ~(c.acq < WarmUp)
      BY <1>1, <1>8, Constants DEF Tuned
    <3>2. c.carrier
      BY <1>8 DEF Tuned
    <3>3. h = ProcessBaud(c, sig)
      <4>1. level
        BY <2>1
      <4>. QED BY <3>1, <3>2, <4>1, ReceiveIs DEF h
    <3>. QED BY <2>1, <3>3
  <2>3. Steady(c, "U11")
    BY <1>8 DEF Steady
  <2>4. CASE c.rx = "unscrambled_sustaining"
    <3>1. h = [c EXCEPT !.last = "U11"]
      BY <2>2, <2>3, <2>4, ByStage DEF UnscrambledSustaining
    <3>2. quiet
      BY <1>3, <1>8, <2>1, <2>4, <3>1 DEF CallerListens, SameRx, Tuned
    <3>. QED BY <1>8, <3>2 DEF h, s, level, sig, Tuned
  <2>5. CASE c.rx = "unscrambled_ones"
    <3>1. h = [UnscrambledOnes(c, "U11") EXCEPT !.last = "U11"]
      BY <2>2, <2>5, ByStage
    <3>2. CASE c.rx_count + 1 # 366
      <4>1. /\ h.carrier = c.carrier /\ h.rx = c.rx /\ h.acq = c.acq
            /\ h.rate = c.rate /\ h.tx = c.tx /\ h.sixteen_way = c.sixteen_way
            /\ h.last = "U11"
        BY <3>1, <3>2, Times, SMTT(30) DEF UnscrambledOnes
      <4>2. quiet
        BY <1>3, <1>8, <2>1, <4>1 DEF CallerListens, SameRx, Tuned
      <4>. QED BY <1>8, <4>2 DEF h, s, level, sig, Tuned
    <3>3. CASE c.rx_count + 1 = 366 /\ ~(c.repeats + 1 >= 273)
      <4>1. /\ h.carrier = c.carrier /\ h.rx = "unscrambled_sustaining" /\ h.acq = c.acq
            /\ h.rate = c.rate /\ h.tx = c.tx /\ h.sixteen_way = c.sixteen_way
            /\ h.last = "U11"
        BY <2>3, <3>1, <3>3, Times, SMTT(30) DEF UnscrambledOnes, RxTo
      <4>2. quiet
        BY <1>3, <1>8, <2>1, <4>1 DEF CallerListens, SameRx, Tuned
      <4>. QED BY <1>8, <4>2 DEF h, s, level, sig, Tuned
    <3>4. CASE c.rx_count + 1 = 366 /\ c.repeats + 1 >= 273
      <4>1. /\ h.carrier = c.carrier /\ h.rx = "unscrambled_sustaining" /\ h.acq = c.acq
            /\ h.rate = c.rate /\ h.tx = (IF c.max = 2400 THEN "S1" ELSE "S11")
            /\ h.tx_count = 0 /\ h.sixteen_way = c.sixteen_way /\ h.last = "U11" /\ h.max = c.max
        BY <2>3, <3>1, <3>4, Times, SMTT(30) DEF UnscrambledOnes, RxTo, TxTo
      <4>2. answer
        BY <1>3, <1>8, <2>1, <4>1 DEF CallerAnswers, CallerListens, SameRx, Same, Tuned
      <4>. QED BY <1>8, <4>2 DEF h, s, level, sig, Tuned
    <3>. QED BY <3>2, <3>3, <3>4
  <2>. QED BY <1>8, <2>4, <2>5
<1>. QED BY <1>4, <1>5, <1>7, <1>8, SMTT(30) DEF CallerListens

\* The steady signal goes on.
LEMMA CallerAnswersOn ==
    ASSUME NEW c, IsModem(c), c.calling, CallerAnswers(c)
    PROVE  LET h == Receive(c, TRUE, "U11")
               s == Transmit(h)
           IN  /\ CallerAnswers(s) /\ Sent(h) = c.tx
               /\ s.tx = "S1" => c.tx = "S1" /\ s.tx_count = c.tx_count + 1
<1>. DEFINE h == Receive(c, TRUE, "U11")
            s == Transmit(h)
<1>0. Tuned(c) /\ c.rx = "unscrambled_sustaining" /\ c.last = "U11"
  BY DEF CallerAnswers
<1>1. h = ProcessBaud(c, "U11")
  BY <1>0, Hears
<1>2. h = [c EXCEPT !.last = "U11"]
  <2>1. h = [UnscrambledSustaining(c, "U11") EXCEPT !.last = "U11"]
    BY <1>0, <1>1, ByStage, ZenonT(30)
  <2>2. Steady(c, "U11")
    BY <1>0 DEF Steady
  <2>. QED BY <2>1, <2>2 DEF UnscrambledSustaining
<1>. HIDE DEF h
<1>3. IsModem(h) /\ Same(h, c) /\ h.calling /\ c.tx_count \in Nat
  <2>1. "U11" \in Signals
    BY DEF Signals
  <2>2. IsModem(h) /\ Same(h, c)
    BY <1>1, <2>1, BaudTyped
  <2>. QED BY <2>2 DEF Same, IsModem
<1>4. SameRx(s, h) /\ (h.tx \in {"S1", "S11"} => Sent(h) = h.tx)
  BY <1>3, TransmitDoes, SentIs
<1>5. /\ h.tx = "S11" => s.tx = "S11"
      /\ h.tx = "S1" /\ h.tx_count + 1 < 60 => s.tx = "S1" /\ s.tx_count = h.tx_count + 1
      /\ h.tx = "S1" /\ h.tx_count + 1 >= 60 /\ h.calling => s.tx = "S11"
  BY <1>3, TransmitDoes
<1>6. /\ h.tx = c.tx /\ h.tx_count = c.tx_count 
      /\ h.carrier = c.carrier /\ h.acq = c.acq /\ h.rx = c.rx /\ h.last = "U11"
      /\ h.rate = c.rate /\ h.sixteen_way = c.sixteen_way
  BY <1>2
<1>. HIDE DEF s
<1>7. /\ CallerAnswers(s) /\ Sent(h) = c.tx
      /\ s.tx = "S1" => c.tx = "S1" /\ s.tx_count = c.tx_count + 1
  BY <1>3, <1>4, <1>5, <1>6 DEF CallerAnswers, SameRx, Same, Tuned
<1>. QED BY <1>7 DEF h, s

\* The stage of the caller after the first symbol that is not the steady signal.
Begun(c, s, signal) ==
    /\ signal = "S11" => SlowCaller(s, 1)
    /\ signal = "S1" => (c.max = 2400 => FastCaller(s, 1))

\* The end of the steady signal (v22bis_rx.c:235).
LEMMA CallerBegins ==
    ASSUME NEW c, IsModem(c), c.calling, CallerAnswers(c),
           NEW signal \in {"S1", "S11"}
    PROVE  LET h == Receive(c, TRUE, signal)
               s == Transmit(h)
           IN  Tuned(s) /\ Sent(h) = "S11" /\ Begun(c, s, signal)
<1>. DEFINE h == Receive(c, TRUE, signal)
            s == Transmit(h)
<1>0. Tuned(c) /\ c.rx = "unscrambled_sustaining" /\ c.last = "U11"
  BY DEF CallerAnswers
<1>1. h = ProcessBaud(c, signal)
  BY <1>0, Hears
<1>. HIDE DEF h
<1>2. h = [TxTo(RxTo(c, "scrambled_1200"), "timed_S11") EXCEPT !.last = signal]
  <2>1. h = [UnscrambledSustaining(c, signal) EXCEPT !.last = signal]
    BY <1>0, <1>1, ByStage
  <2>2. ~Steady(c, signal)
    BY DEF Steady
  <2>. QED BY <2>1, <2>2 DEF UnscrambledSustaining
<1>3. IsModem(h) /\ Same(h, c)
  <2>1. signal \in Signals
    BY DEF Signals
  <2>. QED BY <1>1, <2>1, BaudTyped
<1>4. /\ h.tx = "timed_S11" /\ h.tx_count = 0 /\ h.rx_count = 0
      /\ h.carrier = c.carrier /\ h.acq = c.acq /\ h.rx = "scrambled_1200" /\ h.last = signal
      /\ h.rate = c.rate /\ h.sixteen_way = c.sixteen_way /\ h.repeats = 0
  BY <1>2 DEF TxTo, RxTo
<1>5. SameRx(s, h) /\ s.tx = "timed_S11" /\ s.tx_count = 1 /\ Sent(h) = "S11"
  BY <1>3, <1>4, TransmitDoes, SentIs
<1>. HIDE DEF s
<1>6. /\ Tuned(s) /\ Sent(h) = "S11"
      /\ signal = "S11" => SlowCaller(s, 1)
      /\ signal = "S1" => (c.max = 2400 => FastCaller(s, 1))
  BY <1>3, <1>4, <1>5 DEF CallerAnswers, SlowCaller, FastCaller, SameRx, Same, Tuned
<1>. QED BY <1>6 DEF Begun, h, s

\* The caller at 1200.
LEMMA SlowCallerOn ==
    ASSUME NEW c, IsModem(c), c.calling, Tuned(c), NEW u \in Nat, u > 0, SlowCaller(c, u),
           NEW signal \in SlowFromAnswerer[u]
    PROVE  LET h == Receive(c, TRUE, signal)
               s == Transmit(h)
           IN  Tuned(s) /\ SlowCaller(s, u + 1) /\ Sent(h) \in SlowFromCaller[u]
<1>. DEFINE h == Receive(c, TRUE, signal)
            s == Transmit(h)
            goal == Tuned(s) /\ SlowCaller(s, u + 1) /\ Sent(h) \in SlowFromCaller[u]
<1>1. h = ProcessBaud(c, signal)
  BY Hears
<1>2. signal \in Signals /\ signal # "S1" /\ u \in Int
  BY DEF SlowFromAnswerer, Signals, Data
<1>3. IsModem(h) /\ Same(h, c)
  BY <1>1, <1>2, BaudTyped
<1>. HIDE DEF h
<1>4. /\ SameRx(s, h)
      /\ h.tx = "timed_S11" => Sent(h) = "S11"
      /\ h.tx = "normal" /\ h.rate = 1200 => Sent(h) \in {"S11", "data_1200"} /\ s.tx = "normal"
      /\ h.tx = "timed_S11" /\ h.tx_count + 1 < 453 =>
            s.tx = "timed_S11" /\ s.tx_count = h.tx_count + 1
      /\ h.tx = "timed_S11" /\ h.tx_count + 1 >= 453 /\ h.rate # 2400 => s.tx = "normal"
  BY <1>3, TransmitDoes, SentIs
<1>5. SlowFromCaller[u] = IF u < 615 THEN {"S1", "S11"} ELSE {"S11", "data_1200"}
  BY <1>2 DEF SlowFromCaller
<1>. HIDE DEF s
<1>6. CASE u <= 162
  <2>1. /\ c.rate = 1200 /\ ~c.sixteen_way /\ c.rx = "scrambled_1200" /\ c.rx_count = u - 1
        /\ c.last # "S1" /\ c.tx = "timed_S11" /\ c.tx_count = u
    BY <1>6 DEF SlowCaller
  <2>2. h = [Scrambled1200(c, signal) EXCEPT !.last = signal]
    BY <1>1, <2>1, ByStage
  <2>3. ~S1Seen(c, signal)
    BY <2>1 DEF S1Seen
  <2>. DEFINE w == Watched(c, signal)
  <2>4. /\ w.rate = 1200 /\ ~w.sixteen_way /\ w.tx = "timed_S11" /\ w.tx_count = u
        /\ w.rx = "scrambled_1200" /\ w.rx_count = u /\ w.carrier = c.carrier /\ w.acq = c.acq
    BY <2>1, <2>3, WatchedDoes
  <2>. HIDE DEF w
  <2>5. CASE u < 162
    <3>1. Scrambled1200(c, signal) = w
      BY <2>1, <2>5, ScrambledIs DEF w
    <3>2. /\ h.rate = 1200 /\ ~h.sixteen_way /\ h.tx = "timed_S11" /\ h.tx_count = u
          /\ h.rx = "scrambled_1200" /\ h.rx_count = u /\ h.carrier = c.carrier /\ h.acq = c.acq
          /\ h.last = signal
      BY <2>2, <2>4, <3>1
    <3>3. goal
      BY <1>2, <1>4, <1>5, <2>5, <3>2 DEF SlowCaller, SameRx, Tuned
    <3>. QED BY <3>3 DEF h, s
  <2>6. CASE u = 162
    <3>1. Scrambled1200(c, signal) = FallBack(c, signal)
      BY <2>1, <2>6, ScrambledIs
    <3>2. /\ h.rate = 1200 /\ ~h.sixteen_way /\ h.tx = "timed_S11" /\ h.tx_count = 0
          /\ h.rx = "normal" /\ h.carrier = c.carrier /\ h.acq = c.acq
      <4>1. Counted(c).calling
        BY DEF Counted
      <4>. QED BY <2>2, <2>4, <3>1, <4>1 DEF FallBack, TxTo, w
    <3>3. goal
      BY <1>4, <1>5, <2>6, <3>2 DEF SlowCaller, SameRx, Tuned
    <3>. QED BY <3>3 DEF h, s
  <2>7. u < 162 \/ u = 162
    BY <1>6
  <2>. QED BY <2>5, <2>6, <2>7
<1>7. CASE u > 162
  <2>1. /\ c.rate = 1200 /\ ~c.sixteen_way /\ c.rx = "normal"
        /\ IF u < 615 THEN c.tx = "timed_S11" /\ c.tx_count = u - 162 ELSE c.tx = "normal"
    BY <1>7 DEF SlowCaller
  <2>2. h = [c EXCEPT !.last = signal]
    BY <1>1, <2>1, ByStage
  <2>3. /\ h.rate = 1200 /\ ~h.sixteen_way /\ h.rx = "normal" /\ h.tx = c.tx
        /\ h.tx_count = c.tx_count /\ h.carrier = c.carrier /\ h.acq = c.acq
    BY <2>1, <2>2
  <2>4. goal
    BY <1>4, <1>5, <1>7, <2>1, <2>3 DEF SlowCaller, SameRx, Tuned
  <2>. QED BY <2>4 DEF h, s
<1>8. u <= 162 \/ u > 162
  OBVIOUS
<1>. QED BY <1>6, <1>7, <1>8

\* The caller at 2400.
LEMMA FastCallerOn ==
    ASSUME NEW c, IsModem(c), c.calling, Tuned(c), NEW u \in Nat, u > 0, FastCaller(c, u),
           NEW signal \in FastFromAnswerer[u]
    PROVE  LET h == Receive(c, TRUE, signal)
               s == Transmit(h)
           IN  Tuned(s) /\ FastCaller(s, u + 1) /\ Sent(h) \in FastFromCaller[u]
<1>. DEFINE h == Receive(c, TRUE, signal)
            s == Transmit(h)
            goal == Tuned(s) /\ FastCaller(s, u + 1) /\ Sent(h) \in FastFromCaller[u]
            kept == /\ h.tx = c.tx /\ h.tx_count = c.tx_count /\ h.carrier = c.carrier
                    /\ h.acq = c.acq
            heard == /\ u + 1 <= 60 => h.rate = 1200 /\ h.repeats = u /\ h.last = "S1"
                     /\ u + 1 > 60 => h.rate = 2400
                     /\ u + 1 <= 330 => /\ ~h.sixteen_way /\ h.rx = "scrambled_1200"
                                        /\ h.rx_count = u
                     /\ u + 1 > 330 => h.sixteen_way /\ Trained(h, Larger(u + 1 - 360, 0))
<1>1. h = ProcessBaud(c, signal)
  BY Hears
<1>. HIDE DEF h
<1>2. u \in Int /\ signal \in Signals
      /\ signal \in (IF u < 60 THEN {"S1"} ELSE IF u < 360 THEN {"S11"}
                     ELSE IF u < 480 THEN {"S1111"} ELSE {"S1111", "data_2400"})
  BY DEF FastFromAnswerer, Signals, Data
<1>3. IsModem(h) /\ Same(h, c)
  BY <1>1, <1>2, BaudTyped
<1>4. /\ SameRx(s, h)
      /\ h.tx = "timed_S11" => Sent(h) = "S11"
      /\ h.tx = "S1111" => Sent(h) = "S1111"
      /\ h.tx = "normal" => s.tx = "normal"
      /\ h.tx = "normal" /\ h.rate = 2400 => Sent(h) \in {"S1111", "data_2400"}
      /\ h.tx = "timed_S11" /\ h.tx_count + 1 < 453 =>
            s.tx = "timed_S11" /\ s.tx_count = h.tx_count + 1
      /\ h.tx = "timed_S11" /\ h.tx_count + 1 >= 453 /\ h.rate = 2400 =>
            s.tx = "S1111" /\ s.tx_count = 0
      /\ h.tx = "S1111" /\ h.tx_count + 1 < 120 =>
            s.tx = "S1111" /\ s.tx_count = h.tx_count + 1
      /\ h.tx = "S1111" /\ h.tx_count + 1 >= 120 => s.tx = "normal"
  BY <1>3, TransmitDoes, SentIs
<1>5. FastFromCaller[u] = IF u < 453 THEN {"S1", "S11"} ELSE IF u < 573 THEN {"S1111"}
                          ELSE {"S1111", "data_2400"}
  BY <1>2 DEF FastFromCaller
<1>. HIDE DEF s
<1>6. ASSUME kept, heard PROVE goal
  <2>1. /\ c.max = 2400 
        /\ u < 453 => c.tx = "timed_S11" /\ c.tx_count = u
        /\ 453 <= u /\ u < 573 => c.tx = "S1111" /\ c.tx_count = u - 453
        /\ 573 <= u => c.tx = "normal"
    BY DEF FastCaller
  <2>2. Tuned(s)
    BY <1>4, <1>6 DEF Tuned, SameRx
  <2>3. Sent(h) \in FastFromCaller[u]
    BY <1>4, <1>5, <1>6, <2>1
  <2>4. /\ u + 1 < 453 => s.tx = "timed_S11" /\ s.tx_count = u + 1
        /\ 453 <= u + 1 /\ u + 1 < 573 => s.tx = "S1111" /\ s.tx_count = u + 1 - 453
        /\ 573 <= u + 1 => s.tx = "normal"
    BY <1>4, <1>6, <2>1
  <2>5. s.max = 2400
    BY <1>3, <1>4, <2>1 DEF SameRx, Same
  <2>6. Trained(h, Larger(u + 1 - 360, 0)) => Trained(s, Larger(u + 1 - 360, 0))
    BY <1>4 DEF Trained, SameRx, Same
  <2>7. /\ u + 1 <= 60 => s.rate = 1200 /\ s.repeats = u /\ s.last = "S1"
        /\ u + 1 > 60 => s.rate = 2400
        /\ u + 1 <= 330 => ~s.sixteen_way /\ s.rx = "scrambled_1200" /\ s.rx_count = u
        /\ u + 1 > 330 => s.sixteen_way /\ Trained(s, Larger(u + 1 - 360, 0))
    BY <1>4, <1>6, <2>6 DEF SameRx
  <2>. QED BY <2>2, <2>3, <2>4, <2>5, <2>7 DEF FastCaller
<1>7. CASE u <= 330
  <2>1. /\ c.max = 2400 /\ c.rx = "scrambled_1200" /\ c.rx_count = u - 1 /\ ~c.sixteen_way
        /\ u <= 60 => c.rate = 1200 /\ c.repeats = u - 1 /\ c.last = "S1"
        /\ u > 60 => c.rate = 2400
    BY <1>7 DEF FastCaller
  <2>2. h = [Scrambled1200(c, signal) EXCEPT !.last = signal]
    BY <1>1, <2>1, ByStage
  <2>. DEFINE w == Watched(c, signal)
  <2>3. /\ w.sixteen_way = c.sixteen_way /\ w.rx = c.rx /\ w.rx_count = u
        /\ w.carrier = c.carrier /\ w.acq = c.acq
        /\ Alternating(c, signal) => w.repeats = c.repeats + 1
        /\ S1Seen(c, signal) => w.rate = 2400
        /\ ~S1Seen(c, signal) => w.rate = c.rate
        /\ w.tx = c.tx /\ w.tx_count = c.tx_count
    BY <2>1, WatchedDoes
  <2>. HIDE DEF w
  <2>4. CASE u <= 60
    <3>1. Scrambled1200(c, signal) = w
      BY <2>1, <2>4, ScrambledIs DEF w
    <3>2. /\ h.sixteen_way = w.sixteen_way /\ h.rx = w.rx /\ h.rx_count = w.rx_count
          /\ h.carrier = w.carrier /\ h.acq = w.acq /\ h.rate = w.rate /\ h.repeats = w.repeats
          /\ h.tx = w.tx /\ h.tx_count = w.tx_count /\ h.last = signal
      BY <2>2, <3>1
    <3>3. u < 60 => signal = "S1" /\ Alternating(c, signal) /\ ~S1Seen(c, signal)
      BY <1>2, <2>1 DEF Alternating, S1Seen
    <3>4. u = 60 => S1Seen(c, signal)
      <4>1. S1Repeats \in Nat /\ S1Repeats < 60
        BY Constants, Times, TrainingAssumption
      <4>. QED BY <1>2, <2>1, <4>1 DEF Alternating, S1Seen
    <3>5. kept
      BY <2>3, <3>2
    <3>6. heard
      BY <2>1, <2>3, <2>4, <3>2, <3>3, <3>4
    <3>7. goal
      BY <1>6, <3>5, <3>6
    <3>. QED BY <3>7 DEF h, s
  <2>5. CASE u > 60 /\ u < 330
    <3>1. Due(c) = 330
      BY DEF Due
    <3>2. Scrambled1200(c, signal) = Counted(c)
      BY <2>1, <2>5, <3>1, ScrambledIs
    <3>3. kept /\ h.rate = c.rate /\ h.sixteen_way = c.sixteen_way /\ h.rx = c.rx /\ h.rx_count = u
      BY <2>1, <2>2, <3>2 DEF Counted
    <3>4. heard
      BY <2>1, <2>5, <3>3
    <3>5. goal
      BY <1>6, <3>3, <3>4
    <3>. QED BY <3>5 DEF h, s
  <2>6. CASE u = 330
    <3>1. Due(c) = 330
      BY DEF Due
    <3>2. Scrambled1200(c, signal) = GoOn(c)
      BY <2>1, <2>6, <3>1, ScrambledIs
    <3>3. /\ kept /\ h.rate = c.rate /\ h.sixteen_way = TRUE /\ h.rx = "wait_for_2400"
          /\ h.settling = c.settling /\ h.settle = c.settling /\ h.repeats = 0
      BY <2>1, <2>2, <3>2 DEF GoOn, Counted
    <3>4. /\ c.settling \in Nat /\ OnesRepeats \in Nat /\ OnesRepeats > 0
      BY Constants, TrainingAssumption DEF IsModem
    <3>5. heard
      BY <2>1, <2>6, <3>3, <3>4 DEF Trained, Larger
    <3>6. goal
      BY <1>6, <3>3, <3>5
    <3>. QED BY <3>6 DEF h, s
  <2>7. u <= 60 \/ (u > 60 /\ u < 330) \/ u = 330
    BY <1>7
  <2>. QED BY <2>4, <2>5, <2>6, <2>7
<1>8. CASE u > 330
  <2>. DEFINE n == Larger(u - 360, 0)
  <2>1. c.rate = 2400 /\ c.sixteen_way /\ Trained(c, n) /\ n \in Nat
    BY <1>8 DEF FastCaller, Larger
  <2>2. /\ u < 360 => n = 0 /\ Larger(u + 1 - 360, 0) = 0 /\ signal = "S11"
        /\ u >= 360 /\ u < 480 => Larger(u + 1 - 360, 0) = n + 1 /\ signal = "S1111"
        /\ u >= 480 => n >= 120
    BY <1>2, <1>8 DEF Larger
  <2>. HIDE DEF n
  <2>3. /\ signal = "S1111" => Trained(h, n + 1)
        /\ signal \notin {"S1111", "data_2400"} /\ n = 0 => Trained(h, 0)
        /\ n >= 120 => h.rx = "normal"
        /\ h.rate = c.rate /\ h.sixteen_way = c.sixteen_way /\ kept
    <3>1. Trained(c, n) /\ n \in Nat
      BY <2>1
    <3>. QED BY <1>1, <3>1, TrainedOn
  <2>4. h.rx = "normal" => Trained(h, Larger(u + 1 - 360, 0))
    BY DEF Trained
  <2>5. Trained(h, Larger(u + 1 - 360, 0))
    BY <2>2, <2>3, <2>4
  <2>6. heard
    BY <1>8, <2>1, <2>3, <2>5
  <2>7. goal
    BY <1>6, <2>3, <2>6
  <2>. QED BY <2>7 DEF h, s
<1>9. u <= 330 \/ u > 330
  OBVIOUS
<1>. QED BY <1>7, <1>8, <1>9

-----------------------------------------------------------------------------
(* The answerer. *)

\* Without a carrier it goes from silence to the steady signal, and no further.
LEMMA AnswererWaitsOn ==
    ASSUME NEW a, IsModem(a), ~a.calling, AnswererWaits(a), ~a.sixteen_way,
           a.tx \in {"silence", "U11"}, NEW signal \in Signals
    PROVE  LET h == Receive(a, FALSE, signal)
               s == Transmit(h)
           IN  /\ AnswererWaits(s) /\ ~s.sixteen_way /\ Sent(h) = a.tx
               /\ s.tx \in {"silence", "U11"} /\ (a.tx = "U11" => s.tx = "U11")
<1>. DEFINE h == Receive(a, FALSE, signal)
            s == Transmit(h)
<1>1. h = [a EXCEPT !.carrier = FALSE]
  BY ReceiveIs
<1>2. IsModem(h) /\ Same(h, a)
  BY TurnTyped
<1>. HIDE DEF h
<1>3. ~h.carrier /\ h.rx = a.rx /\ h.rx_count = a.rx_count /\ h.tx = a.tx
  BY <1>1
<1>4. ~h.sixteen_way
  BY <1>1
<1>5. ~h.calling
  BY <1>2 DEF Same
<1>6. /\ SameRx(s, h) /\ Sent(h) = h.tx /\ s.tx \in {"silence", "U11"}
      /\ h.tx = "U11" => s.tx = "U11"
  BY <1>2, <1>3, <1>5, TransmitDoes, SentIs
<1>. HIDE DEF s
<1>7. /\ AnswererWaits(s) /\ ~s.sixteen_way /\ Sent(h) = a.tx
      /\ s.tx \in {"silence", "U11"} /\ (a.tx = "U11" => s.tx = "U11")
  BY <1>3, <1>4, <1>6 DEF AnswererWaits, SameRx
<1>. QED BY <1>7 DEF h, s

\* The answerer hears the caller, from its first symbol on, until it settles on a rate:
\* at the end of an S1, which comes early enough, or when the time for one is over.
LEMMA AnswererHearsOn ==
    ASSUME NEW a, IsModem(a), ~a.calling, a.tx = "U11", ~a.sixteen_way, NEW c,
           NEW la \in Seq(Signals), Len(la) > a.lead + 1,
           NEW f \in Int, Burst(c, la, f), AnswererHears(c, a, f)
    PROVE  LET h == Receive(a, la[1 + a.lead] # "silence", Head(la))
               s == Transmit(h)
           IN  \/ /\ AnswererHears(c, s, f - 1) /\ s.tx = "U11" /\ ~s.sixteen_way
                  /\ Sent(h) = "U11"
               \/ /\ Tuned(s) /\ f <= 0
                  /\ \/ SlowAnswerer(s, 1) /\ Sent(h) = "S11"
                     \/ /\ \A v \in Int : FastAnswerer(s, 1, v)
                        /\ Sent(h) = "S1" /\ c.max = 2400
<1>. DEFINE level == la[1 + a.lead] # "silence"
            sig == Head(la)
            h == Receive(a, level, sig)
            s == Transmit(h)
            goon == /\ AnswererHears(c, s, f - 1) /\ s.tx = "U11" /\ ~s.sixteen_way
                    /\ Sent(h) = "U11"
            slow == Tuned(s) /\ f <= 0 /\ SlowAnswerer(s, 1) /\ Sent(h) = "S11"
            fast == /\ Tuned(s) /\ f <= 0 /\ \A v \in Int : FastAnswerer(s, 1, v)
                    /\ Sent(h) = "S1" /\ c.max = 2400
<1>1. /\ a.lead \in Nat /\ 1 + a.lead \in DOMAIN la /\ 1 \in DOMAIN la /\ Len(la) > 0
      /\ a.lead <= WarmUp + Acquire
      /\ a.acq \in Nat /\ a.rx_count \in Nat /\ a.carrier \in BOOLEAN
  <2>1. a.lead \in Nat /\ a.lead <= WarmUp + Acquire
    BY Constants, TrainingAssumption DEF IsModem
  <2>. QED BY <2>1, Places DEF IsModem
<1>2. IsModem(h) /\ Same(h, a)
  <2>1. level \in BOOLEAN /\ Head(la) \in Signals
    BY <1>1, Shift
  <2>. QED BY <2>1, TurnTyped
<1>. HIDE DEF h
<1>3. ~h.calling
  BY <1>2 DEF Same
<1>4. /\ SameRx(s, h)
      /\ h.tx = "U11" => s.tx = "U11" /\ Sent(h) = "U11"
      /\ h.tx = "S1" /\ h.tx_count = 0 => s.tx = "S1" /\ s.tx_count = 1 /\ Sent(h) = "S1"
      /\ h.tx = "timed_S11" /\ h.tx_count = 0 =>
            s.tx = "timed_S11" /\ s.tx_count = 1 /\ Sent(h) = "S11"
  BY <1>2, TransmitDoes, SentIs
<1>5. sig = la[1] /\ (sig = "S1" => f - 1 + 60 > 0 /\ c.max = 2400)
  BY <1>1, Shift DEF Burst
<1>. HIDE DEF s, level, sig
<1>6. CASE ~a.carrier /\ a.rx = "acquisition" /\ a.rx_count = 0 /\ a.lead < f /\ ~level
  <2>1. f > 1 + a.lead
    BY <1>1, <1>6 DEF Burst, level
  <2>2. h = [a EXCEPT !.carrier = FALSE]
    BY <1>6, ReceiveIs DEF h
  <2>3. /\ ~h.carrier /\ h.rx = a.rx /\ h.rx_count = a.rx_count /\ h.tx = a.tx
        /\ h.lead = a.lead
    BY <2>2
  <2>4. ~h.sixteen_way
    BY <2>2
  <2>5. goon
    BY <1>1, <1>4, <1>6, <2>1, <2>3, <2>4 DEF AnswererHears, SameRx, Same
  <2>. QED BY <2>5 DEF h, s, level, sig
<1>7. CASE ~a.carrier /\ a.rx = "acquisition" /\ a.rx_count = 0 /\ a.lead < f /\ level
  <2>1. f <= 1 + a.lead
    BY <1>1, <1>7 DEF Burst, level
  <2>2. h = AcquireReset(a)
    BY <1>7, ReceiveIs, ZenonT(30) DEF h
  <2>3. /\ h.carrier /\ h.rx = "acquisition" /\ h.rx_count = 0 /\ h.acq = 0 /\ h.rate = 1200
        /\ h.tx = a.tx /\ h.lead = a.lead /\ h.last = "silence"
    BY <2>2 DEF AcquireReset, RxTo
  <2>4. ~h.sixteen_way
    BY <2>2 DEF AcquireReset, RxTo
  <2>5. goon
    BY <1>1, <1>4, <1>7, <2>1, <2>3, <2>4 DEF AnswererHears, SameRx, Same
  <2>. QED BY <2>5 DEF h, s, level, sig
<1>8. CASE /\ a.carrier /\ a.rx = "acquisition" /\ a.rate = 1200
           /\ a.acq < WarmUp => a.rx_count = 0 /\ a.last # "S1"
           /\ f + a.acq + a.rx_count <= a.lead
           /\ a.last = "S1" => f + 60 > 0 /\ c.max = 2400
  <2>1. level /\ level \in BOOLEAN /\ a.carrier
    <3>1. f <= a.lead
      BY <1>1, <1>8
    <3>2. level
      BY <1>1, <3>1 DEF Burst, level
    <3>3. level \in BOOLEAN
      BY DEF level
    <3>. QED BY <1>8, <3>2, <3>3
  <2>2. CASE a.acq < WarmUp
    <3>1. h = [a EXCEPT !.acq = @ + 1]
      BY <2>1, <2>2, ReceiveIs, ZenonT(30) DEF h
    <3>2. /\ h.carrier = a.carrier /\ h.rx = a.rx /\ h.rx_count = a.rx_count /\ h.acq = a.acq + 1
          /\ h.rate = a.rate /\ h.tx = a.tx /\ h.lead = a.lead /\ h.last = a.last
      BY <3>1
    <3>3. ~h.sixteen_way
      BY <3>1
    <3>4. goon
      BY <1>1, <1>4, <1>8, <2>2, <3>2, <3>3, SMTT(30) DEF AnswererHears, SameRx, Same
    <3>. QED BY <3>4 DEF h, s, level, sig
  <2>3. CASE ~(a.acq < WarmUp)
    <3>1. h = ProcessBaud(a, sig)
      <4>1. Tuned(a)
        BY <1>1, <2>1, <2>3, Constants DEF Tuned
      <4>2. level = TRUE
        BY <2>1
      <4>3. h = Receive(a, TRUE, sig)
        BY <4>2 DEF h
      <4>. QED BY <4>1, <4>3, Hears
    <3>2. h = [AcquireTiming(a) EXCEPT !.last = sig]
      BY <1>8, <3>1, ByStage
    <3>3. CASE ~(a.rx_count + 1 >= Acquire)
      <4>1. /\ h.carrier = a.carrier /\ h.rx = a.rx /\ h.rx_count = a.rx_count + 1
            /\ h.acq = a.acq /\ h.rate = a.rate /\ h.tx = a.tx /\ h.lead = a.lead /\ h.last = sig
        BY <3>2, <3>3 DEF AcquireTiming
      <4>2. ~h.sixteen_way
        BY <3>2, <3>3 DEF AcquireTiming
      <4>3. goon
        BY <1>1, <1>4, <1>5, <1>8, <2>3, <4>1, <4>2, SMTT(30) DEF AnswererHears, SameRx, Same
      <4>. QED BY <4>3 DEF h, s, level, sig
    <3>4. CASE a.rx_count + 1 >= Acquire
      <4>1. /\ h.carrier = a.carrier /\ h.rx = "scrambled_1200" /\ h.rx_count = 0
            /\ h.acq = a.acq /\ h.rate = 1200 /\ h.tx = a.tx /\ h.lead = a.lead /\ h.last = sig
        <5>1. ~a.calling
          OBVIOUS
        <5>. QED BY <3>2, <3>4, <5>1 DEF AcquireTiming, RxTo
      <4>2. ~h.sixteen_way
        BY <3>2, <3>4 DEF AcquireTiming, RxTo
      <4>3. goon
        <5>1. f - 1 + WarmUp + Acquire <= a.lead /\ a.acq >= WarmUp
          <6>1. f + a.acq + a.rx_count <= a.lead
            BY <1>8
          <6>2. a.acq \in Nat /\ a.rx_count \in Nat /\ a.lead \in Nat
            BY <1>1
          <6>. QED BY <2>3, <3>4, <6>1, <6>2, Constants, SMTT(30)
        <5>2. s.carrier /\ s.acq >= WarmUp
          BY <1>4, <2>1, <4>1, <5>1 DEF SameRx
        <5>. QED BY <1>4, <1>5, <4>1, <4>2, <5>1, <5>2, Constants DEF AnswererHears, SameRx, Same, Tuned
      <4>. QED BY <4>3 DEF h, s, level, sig
    <3>. QED BY <3>3, <3>4
  <2>. QED BY <2>2, <2>3
<1>9. CASE /\ Tuned(a) /\ a.rx = "scrambled_1200" /\ a.rate = 1200 /\ a.rx_count < 162
           /\ f + WarmUp + Acquire + a.rx_count <= a.lead
           /\ a.last = "S1" => f + 60 > 0 /\ c.max = 2400
  <2>1. f + a.rx_count <= 0
    BY <1>1, <1>9, Constants
  <2>2. level = TRUE
    BY <1>1, <2>1 DEF Burst, level
  <2>3. h = ProcessBaud(a, sig)
    <3>1. Tuned(a)
      BY <1>9
    <3>2. h = Receive(a, TRUE, sig)
      BY <2>2 DEF h
    <3>. QED BY <3>1, <3>2, Hears
  <2>4. h = [Scrambled1200(a, sig) EXCEPT !.last = sig]
    BY <1>9, <2>3, ByStage
  <2>. DEFINE w == Watched(a, sig)
  <2>5. /\ w.rx = "scrambled_1200" /\ w.rx_count = a.rx_count + 1
        /\ w.carrier = a.carrier /\ w.acq = a.acq
        /\ S1Seen(a, sig) => w.rate = 2400 /\ w.tx = "S1" /\ w.tx_count = 0
        /\ ~S1Seen(a, sig) => w.rate = 1200 /\ w.tx = "U11" /\ w.tx_count = a.tx_count
    BY <1>9, WatchedDoes
  <2>6. ~w.sixteen_way
    BY WatchedDoes
  <2>. HIDE DEF w
  <2>7. CASE S1Seen(a, sig)
    <3>1. a.max = 2400 /\ a.last = "S1"
      BY <2>7 DEF S1Seen
    <3>2. a.rx_count + 1 < 162
      BY <1>1, <1>9, <2>1, <3>1
    <3>3. Scrambled1200(a, sig) = w
      BY <1>9, <3>2, ScrambledIs DEF w
    <3>4. /\ h.rx = "scrambled_1200" /\ h.rx_count = a.rx_count + 1 /\ h.carrier = a.carrier
          /\ h.acq = a.acq /\ h.rate = 2400 /\ h.tx = "S1" /\ h.tx_count = 0
      BY <2>4, <2>5, <2>7, <3>3
    <3>5. ~h.sixteen_way /\ h.max = 2400
      BY <1>2, <2>4, <2>6, <3>1, <3>3 DEF Same
    <3>6. \A v \in Int : FastAnswerer(s, 1, v)
      BY <1>1, <1>4, <3>2, <3>4, <3>5 DEF FastAnswerer, SameRx, Same
    <3>7. fast
      BY <1>1, <1>4, <1>9, <2>1, <3>1, <3>4, <3>6 DEF SameRx, Tuned
    <3>. QED BY <3>7 DEF h, s, level, sig
  <2>8. CASE ~S1Seen(a, sig) /\ a.rx_count + 1 < 162
    <3>1. Scrambled1200(a, sig) = w
      BY <1>9, <2>8, ScrambledIs DEF w
    <3>2. /\ h.rx = "scrambled_1200" /\ h.rx_count = a.rx_count + 1 /\ h.carrier = a.carrier
          /\ h.acq = a.acq /\ h.rate = 1200 /\ h.tx = "U11" /\ h.last = sig
      BY <2>4, <2>5, <2>8, <3>1
    <3>3. ~h.sixteen_way /\ h.lead = a.lead
      BY <1>2, <2>4, <2>6, <3>1 DEF Same
    <3>4. goon
      BY <1>1, <1>4, <1>5, <1>9, <2>8, <3>2, <3>3, Constants DEF AnswererHears, SameRx, Same, Tuned
    <3>. QED BY <3>4 DEF h, s, level, sig
  <2>9. CASE ~S1Seen(a, sig) /\ a.rx_count + 1 = 162
    <3>1. Scrambled1200(a, sig) = FallBack(a, sig)
      BY <1>9, <2>9, ScrambledIs
    <3>2. ~Counted(a).calling
      BY DEF Counted
    <3>3. /\ h.rx = "scrambled_1200_sustaining" /\ h.rx_count = 162 /\ h.carrier = a.carrier
          /\ h.acq = a.acq /\ h.rate = 1200 /\ h.tx = "timed_S11" /\ h.tx_count = 0
      BY <2>4, <2>5, <2>9, <3>1, <3>2 DEF FallBack, TxTo, w
    <3>4. ~h.sixteen_way
      BY <2>4, <2>6, <3>1 DEF FallBack, TxTo, w
    <3>5. slow
      BY <1>1, <1>4, <1>9, <2>1, <3>3, <3>4 DEF SlowAnswerer, SameRx, Tuned
    <3>. QED BY <3>5 DEF h, s, level, sig
  <2>10. a.rx_count + 1 < 162 \/ a.rx_count + 1 = 162
    BY <1>1, <1>9
  <2>. QED BY <2>7, <2>8, <2>9, <2>10
<1>10. ~level \/ level
  OBVIOUS
<1>. QED BY <1>6, <1>7, <1>8, <1>9, <1>10, SMTT(30) DEF AnswererHears

\* The answerer at 1200, whatever it hears.
LEMMA SlowAnswererOn ==
    ASSUME NEW a, IsModem(a), ~a.calling, Tuned(a), NEW k \in Nat, k > 0,
           SlowAnswerer(a, k), NEW signal \in Signals
    PROVE  LET h == Receive(a, TRUE, signal)
               s == Transmit(h)
           IN  Tuned(s) /\ SlowAnswerer(s, k + 1) /\ Sent(h) \in SlowFromAnswerer[k]
<1>. DEFINE h == Receive(a, TRUE, signal)
            s == Transmit(h)
            goal == Tuned(s) /\ SlowAnswerer(s, k + 1) /\ Sent(h) \in SlowFromAnswerer[k]
<1>1. h = ProcessBaud(a, signal)
  BY Hears
<1>2. IsModem(h) /\ Same(h, a)
  BY <1>1, BaudTyped
<1>. HIDE DEF h
<1>3. /\ SameRx(s, h)
      /\ h.tx = "timed_S11" => Sent(h) = "S11"
      /\ h.tx = "normal" => s.tx = "normal"
      /\ h.tx = "normal" /\ h.rate = 1200 => Sent(h) \in {"S11", "data_1200"}
      /\ h.tx = "timed_S11" /\ h.tx_count + 1 < 453 =>
            s.tx = "timed_S11" /\ s.tx_count = h.tx_count + 1
      /\ h.tx = "timed_S11" /\ h.tx_count + 1 >= 453 /\ h.rate # 2400 => s.tx = "normal"
  BY <1>2, TransmitDoes, SentIs
<1>4. k \in Int
      /\ SlowFromAnswerer[k] = IF k < 453 THEN {"S11"} ELSE {"S11", "data_1200"}
  BY DEF SlowFromAnswerer
<1>5. /\ a.rate = 1200
      /\ IF k < 453 THEN a.tx = "timed_S11" /\ a.tx_count = k ELSE a.tx = "normal"
      /\ IF k <= 460 THEN a.rx = "scrambled_1200_sustaining" /\ a.rx_count = k + 161
                     ELSE a.rx = "normal"
  BY DEF SlowAnswerer
<1>6. ~a.sixteen_way
  BY DEF SlowAnswerer
<1>. HIDE DEF s
<1>7. ASSUME h.tx = a.tx, h.tx_count = a.tx_count, h.rate = a.rate, Tuned(h), ~h.sixteen_way,
             IF k + 1 <= 460 THEN h.rx = "scrambled_1200_sustaining" /\ h.rx_count = k + 162
                             ELSE h.rx = "normal"
      PROVE  goal
  BY <1>3, <1>4, <1>5, <1>7 DEF SlowAnswerer, SameRx, Tuned
<1>8. CASE k <= 460
  <2>1. h = [Scrambled1200Sustaining(a) EXCEPT !.last = signal]
    BY <1>1, <1>5, <1>8, ByStage
  <2>2. /\ h.tx = a.tx /\ h.tx_count = a.tx_count /\ h.rate = a.rate
        /\ h.rx_count = a.rx_count + 1 /\ h.carrier = a.carrier /\ h.acq = a.acq
        /\ h.rx = (IF a.rx_count + 1 > 621 THEN "normal" ELSE a.rx)
    BY <2>1, Times DEF Scrambled1200Sustaining
  <2>3. ~h.sixteen_way
    BY <1>6, <2>1 DEF Scrambled1200Sustaining
  <2>4. goal
    BY <1>5, <1>7, <1>8, <2>2, <2>3 DEF Tuned
  <2>. QED BY <2>4 DEF h, s
<1>9. CASE k > 460
  <2>1. h = [a EXCEPT !.last = signal]
    BY <1>1, <1>5, <1>9, ByStage
  <2>2. /\ h.tx = a.tx /\ h.tx_count = a.tx_count /\ h.rate = a.rate /\ h.rx = a.rx
        /\ h.carrier = a.carrier /\ h.acq = a.acq
    BY <2>1
  <2>3. ~h.sixteen_way
    BY <1>6, <2>1
  <2>4. goal
    BY <1>5, <1>7, <1>9, <2>2, <2>3 DEF Tuned
  <2>. QED BY <2>4 DEF h, s
<1>10. k <= 460 \/ k > 460
  OBVIOUS
<1>. QED BY <1>8, <1>9, <1>10

\* The answerer at 2400, when it hears the v-th symbol.
LEMMA FastAnswererOn ==
    ASSUME NEW a, IsModem(a), ~a.calling, Tuned(a), NEW k \in Nat, k > 0,
           NEW v \in Int, v < k, FastAnswerer(a, k, v), NEW signal \in FastFromCaller[v]
    PROVE  LET h == Receive(a, TRUE, signal)
               s == Transmit(h)
           IN  Tuned(s) /\ FastAnswerer(s, k + 1, v + 1) /\ Sent(h) \in FastFromAnswerer[k]
<1>. DEFINE h == Receive(a, TRUE, signal)
            s == Transmit(h)
            goal == Tuned(s) /\ FastAnswerer(s, k + 1, v + 1) /\ Sent(h) \in FastFromAnswerer[k]
            kept == /\ h.tx = a.tx /\ h.tx_count = a.tx_count /\ h.carrier = a.carrier
                    /\ h.acq = a.acq /\ h.rate = a.rate
            heard == /\ h.sixteen_way => Trained(h, Larger(v + 1 - 453, 0))
                     /\ ~h.sixteen_way => /\ h.rx = "scrambled_1200"
                                          /\ h.rx_count >= k + 1 /\ h.rx_count < 270
<1>1. h = ProcessBaud(a, signal)
  BY Hears
<1>. HIDE DEF h
<1>2. signal \in (IF v < 453 THEN {"S1", "S11"} ELSE IF v < 573 THEN {"S1111"}
                  ELSE {"S1111", "data_2400"})
  BY DEF FastFromCaller
<1>3. IsModem(h) /\ Same(h, a)
  <2>1. signal \in Signals
    BY <1>2 DEF Signals, Data
  <2>. QED BY <1>1, <2>1, BaudTyped
<1>4. ~h.calling
  BY <1>3 DEF Same
<1>5. /\ SameRx(s, h)
      /\ h.tx = "timed_S11" => Sent(h) = "S11"
      /\ h.tx \in {"S1", "S1111"} => Sent(h) = h.tx
      /\ h.tx = "normal" => s.tx = "normal"
      /\ h.tx = "normal" /\ h.rate = 2400 => Sent(h) \in {"S1111", "data_2400"}
      /\ h.tx = "S1" /\ h.tx_count + 1 < 60 => s.tx = "S1" /\ s.tx_count = h.tx_count + 1
      /\ h.tx = "S1" /\ h.tx_count + 1 >= 60 => s.tx = "timed_S11" /\ s.tx_count = 153
      /\ h.tx = "timed_S11" /\ h.tx_count + 1 < 453 =>
            s.tx = "timed_S11" /\ s.tx_count = h.tx_count + 1
      /\ h.tx = "timed_S11" /\ h.tx_count + 1 >= 453 /\ h.rate = 2400 =>
            s.tx = "S1111" /\ s.tx_count = 0
      /\ h.tx = "S1111" /\ h.tx_count + 1 < 120 =>
            s.tx = "S1111" /\ s.tx_count = h.tx_count + 1
      /\ h.tx = "S1111" /\ h.tx_count + 1 >= 120 => s.tx = "normal"
  BY <1>3, <1>4, TransmitDoes, SentIs
<1>6. k \in Int
      /\ FastFromAnswerer[k] = IF k < 60 THEN {"S1"} ELSE IF k < 360 THEN {"S11"}
                               ELSE IF k < 480 THEN {"S1111"} ELSE {"S1111", "data_2400"}
  BY DEF FastFromAnswerer
<1>7. /\ a.rate = 2400 /\ a.max = 2400
      /\ k < 60 => a.tx = "S1" /\ a.tx_count = k
      /\ 60 <= k /\ k < 360 => a.tx = "timed_S11" /\ a.tx_count = k + 93
      /\ 360 <= k /\ k < 480 => a.tx = "S1111" /\ a.tx_count = k - 360
      /\ 480 <= k => a.tx = "normal"
  BY DEF FastAnswerer
<1>8. /\ a.sixteen_way => Trained(a, Larger(v - 453, 0))
      /\ ~a.sixteen_way => a.rx = "scrambled_1200" /\ a.rx_count >= k /\ a.rx_count < 270
  BY DEF FastAnswerer
<1>. HIDE DEF s
<1>9. ASSUME kept, heard PROVE goal
  <2>1. Tuned(s)
    BY <1>5, <1>9 DEF Tuned, SameRx
  <2>2. Sent(h) \in FastFromAnswerer[k]
    BY <1>5, <1>6, <1>7, <1>9
  <2>3. /\ k + 1 < 60 => s.tx = "S1" /\ s.tx_count = k + 1
        /\ 60 <= k + 1 /\ k + 1 < 360 => s.tx = "timed_S11" /\ s.tx_count = k + 1 + 93
        /\ 360 <= k + 1 /\ k + 1 < 480 => s.tx = "S1111" /\ s.tx_count = k + 1 - 360
        /\ 480 <= k + 1 => s.tx = "normal"
    BY <1>5, <1>6, <1>7, <1>9
  <2>4. s.max = 2400 /\ s.rate = 2400
    BY <1>3, <1>5, <1>7, <1>9 DEF SameRx, Same
  <2>5. Trained(h, Larger(v + 1 - 453, 0)) => Trained(s, Larger(v + 1 - 453, 0))
    BY <1>5 DEF Trained, SameRx, Same
  <2>6. /\ s.sixteen_way => Trained(s, Larger(v + 1 - 453, 0))
        /\ ~s.sixteen_way => s.rx = "scrambled_1200" /\ s.rx_count >= k + 1 /\ s.rx_count < 270
    BY <1>5, <1>9, <2>5 DEF SameRx
  <2>. QED BY <2>1, <2>2, <2>3, <2>4, <2>6 DEF FastAnswerer
<1>10. CASE ~a.sixteen_way
  <2>1. a.rx = "scrambled_1200" /\ a.rx_count >= k /\ a.rx_count < 270 /\ Due(a) = 270
        /\ a.rx_count \in Nat
    BY <1>8, <1>10 DEF Due, IsModem
  <2>2. h = [Scrambled1200(a, signal) EXCEPT !.last = signal]
    BY <1>1, <2>1, ByStage
  <2>3. CASE a.rx_count + 1 < 270
    <3>1. Scrambled1200(a, signal) = Counted(a)
      BY <1>7, <2>1, <2>3, ScrambledIs
    <3>2. kept /\ h.rx = a.rx /\ h.rx_count = a.rx_count + 1
      BY <2>2, <3>1 DEF Counted
    <3>3. ~h.sixteen_way
      BY <1>10, <2>2, <3>1 DEF Counted
    <3>4. heard
      BY <1>6, <2>1, <2>3, <3>2, <3>3
    <3>5. goal
      BY <1>9, <3>2, <3>4
    <3>. QED BY <3>5 DEF h, s
  <2>4. CASE a.rx_count + 1 >= 270
    <3>1. Scrambled1200(a, signal) = GoOn(a)
      BY <1>7, <2>1, <2>4, ScrambledIs
    <3>2. /\ kept /\ h.rx = "wait_for_2400" /\ h.settling = a.settling /\ h.settle = a.settling
          /\ h.repeats = 0
      BY <2>2, <3>1 DEF GoOn, Counted
    <3>3. h.sixteen_way
      BY <2>2, <3>1 DEF GoOn, Counted
    <3>4. a.settling \in Nat /\ OnesRepeats \in Nat /\ OnesRepeats > 0
      BY Constants, TrainingAssumption DEF IsModem
    <3>5. Larger(v + 1 - 453, 0) = 0
      BY <2>1 DEF Larger
    <3>6. Trained(h, 0)
      BY <3>2, <3>4 DEF Trained, Larger
    <3>7. heard
      BY <3>3, <3>5, <3>6
    <3>8. goal
      BY <1>9, <3>2, <3>7
    <3>. QED BY <3>8 DEF h, s
  <2>5. a.rx_count + 1 < 270 \/ a.rx_count + 1 >= 270
    BY <2>1
  <2>. QED BY <2>3, <2>4, <2>5
<1>11. CASE a.sixteen_way
  <2>. DEFINE n == Larger(v - 453, 0)
  <2>1. Trained(a, n) /\ n \in Nat
    BY <1>8, <1>11 DEF Larger
  <2>2. /\ v < 453 => n = 0 /\ Larger(v + 1 - 453, 0) = 0 /\ signal \in {"S1", "S11"}
        /\ v >= 453 /\ v < 573 => Larger(v + 1 - 453, 0) = n + 1 /\ signal = "S1111"
        /\ v >= 573 => n >= 120
    BY <1>2 DEF Larger
  <2>. HIDE DEF n
  <2>3. /\ signal = "S1111" => Trained(h, n + 1)
        /\ signal \notin {"S1111", "data_2400"} /\ n = 0 => Trained(h, 0)
        /\ n >= 120 => h.rx = "normal"
        /\ kept /\ h.sixteen_way = a.sixteen_way
    BY <1>1, <2>1, TrainedOn
  <2>4. h.rx = "normal" => Trained(h, Larger(v + 1 - 453, 0))
    BY DEF Trained
  <2>5. Trained(h, Larger(v + 1 - 453, 0))
    BY <2>2, <2>3, <2>4
  <2>6. h.sixteen_way
    BY <1>11, <2>3
  <2>7. heard
    BY <2>5, <2>6
  <2>8. goal
    BY <1>9, <2>3, <2>7
  <2>. QED BY <2>8 DEF h, s
<1>12. ~a.sixteen_way \/ a.sixteen_way
  OBVIOUS
<1>. QED BY <1>10, <1>11, <1>12

-----------------------------------------------------------------------------
(* A turn of the caller. *)

\* One symbol is heard, one is sent.
LEMMA FollowsOn ==
    ASSUME NEW signals, NEW i \in Int, NEW l \in Seq(Signals), Len(l) > 0, Follows(l, signals, i)
    PROVE  Head(l) \in signals[i] /\ Follows(Tail(l), signals, i + 1)
<1>1. Head(l) \in signals[i + 1 - 1]
  BY Shift DEF Follows
<1>2. ASSUME NEW p \in DOMAIN Tail(l) PROVE Tail(l)[p] \in signals[i + 1 + p - 1]
  <2>1. p \in Nat /\ p + 1 \in DOMAIN l /\ Tail(l)[p] = l[p + 1]
    BY Shift
  <2>2. i + (p + 1) - 1 = i + 1 + p - 1
    BY <2>1
  <2>. QED BY <2>1, <2>2 DEF Follows
<1>3. i + 1 - 1 = i
  OBVIOUS
<1>. QED BY <1>1, <1>2, <1>3 DEF Follows

\* The symbol sent has the next number.
LEMMA FollowsPushed ==
    ASSUME NEW signals, NEW i \in Int, NEW l \in Seq(Signals), Follows(l, signals, i),
           NEW x \in Signals, x \in signals[i + Len(l)]
    PROVE  Follows(Append(l, x), signals, i)
<1>1. ASSUME NEW p \in DOMAIN Append(l, x) PROVE Append(l, x)[p] \in signals[i + p - 1]
  <2>1. (p = Len(l) + 1 /\ Append(l, x)[p] = x) \/ (p \in DOMAIN l /\ Append(l, x)[p] = l[p])
    BY Push
  <2>2. i + (Len(l) + 1) - 1 = i + Len(l)
    BY Places
  <2>. QED BY <2>1, <2>2 DEF Follows
<1>. QED BY <1>1 DEF Follows

\* Nothing of what follows is silence.
LEMMA NoSilence ==
    /\ \A i \in Int : /\ "silence" \notin SlowFromAnswerer[i] /\ "silence" \notin SlowFromCaller[i]
                      /\ "silence" \notin FastFromAnswerer[i] /\ "silence" \notin FastFromCaller[i]
    /\ \A i \in Int : /\ i < 0 => SlowFromAnswerer[i] = {"U11"} /\ FastFromAnswerer[i] = {"U11"}
                      /\ i = 0 => SlowFromAnswerer[i] = {"S11"} /\ FastFromAnswerer[i] = {"S1"}
                      /\ i <= 0 => SlowFromCaller[i] = {"S1", "S11"} /\ FastFromCaller[i] = {"S1", "S11"}
BY DEF SlowFromAnswerer, SlowFromCaller, FastFromAnswerer, FastFromCaller

\* While the other side sends, the level detector sees a carrier (v22bis_rx.c:382).
LEMMA Audible ==
    ASSUME NEW signals, NEW i \in Int, NEW l, Follows(l, signals, i),
           \A n \in Int : "silence" \notin signals[n],
           NEW p \in DOMAIN l, p \in Nat
    PROVE  (l[p] # "silence") = TRUE
<1>1. l[p] \in signals[i + p - 1] /\ i + p - 1 \in Int
  BY DEF Follows
<1>. QED BY <1>1

\* The parts of what holds once the answerer has settled on a rate.
LEMMA SettledIs ==
    ASSUME NEW c, NEW a, NEW lc, NEW la, NEW k, NEW u, NEW v, u = k - Len(lc), v = u - Len(la),
           Tuned(a), Tuned(c), u <= 0 => CallerAnswers(c),
           Slow(c, a, lc, la, k, u, v) \/ Fast(c, a, lc, la, k, u, v)
    PROVE  Settled(c, a, lc, la, k)
BY DEF Settled

\* The caller's turn while the answerer has not settled on a rate: it waits, or begins to
\* answer, or goes on answering (v22bis_rx.c:215).
LEMMA CallerTurnBefore ==
    ASSUME NEW c, NEW a, IsModem(c), IsModem(a), c.calling,
           NEW lc \in Seq(Signals), NEW la \in Seq(Signals),
           Len(lc) > c.lead, Len(la) > a.lead, Before(c, a, lc, la)
    PROVE  LET h == Receive(c, lc[1 + c.lead] # "silence", Head(lc))
           IN  Before(Transmit(h), a, Tail(lc), Append(la, Sent(h)))
<1>. DEFINE level == lc[1 + c.lead] # "silence"
            h == Receive(c, level, Head(lc))
            s == Transmit(h)
            o == Sent(h)
            m == Append(la, o)
<1>1. /\ c.lead \in Nat /\ a.lead \in Nat /\ Len(lc) \in Nat /\ Len(lc) > 0 /\ Len(la) \in Nat
      /\ 1 \in DOMAIN lc /\ 1 + c.lead \in DOMAIN lc /\ Head(lc) \in Signals
      /\ lc[1] = Head(lc)
  <2>1. c.lead \in Nat /\ a.lead \in Nat
    BY Constants DEF IsModem
  <2>. QED BY <2>1, Places, Shift
<1>2. o \in Signals /\ Same(s, c)
  <2>1. level \in BOOLEAN
    OBVIOUS
  <2>. QED BY <1>1, <2>1, TurnTyped
<1>3. /\ Len(m) = Len(la) + 1
      /\ \A p \in DOMAIN m : (p = Len(la) + 1 /\ m[p] = o) \/ (p \in DOMAIN la /\ m[p] = la[p])
  BY <1>2, Push
<1>4. a.tx \in {"silence", "U11"} /\ ~a.sixteen_way
  BY DEF Before
<1>5. CASE Listening(c, a, lc, la)
  <2>1. /\ CallerListens(c, lc) /\ All(la, {"silence"}) /\ AnswererWaits(a) /\ Rising(lc)
        /\ a.tx = "silence" => All(lc, {"silence"}) /\ ~c.carrier
    BY <1>5 DEF Listening
  <2>2. \/ /\ CallerListens(s, Tail(lc)) /\ o = "silence"
           /\ ~c.carrier /\ All(lc, {"silence"}) => ~s.carrier
        \/ /\ CallerAnswers(s) /\ All(lc, {"U11"}) /\ c.carrier
           /\ o \in {"S1", "S11"} /\ s.tx = o /\ (s.tx = "S1" => s.tx_count = 1)
    BY <2>1, CallerListensOn
  <2>. HIDE DEF s, o, h
  <2>3. Rising(Tail(lc)) /\ (All(lc, {"silence"}) => All(Tail(lc), {"silence"}))
    <3>1. \A p \in DOMAIN Tail(lc) : p \in Nat /\ p + 1 \in DOMAIN lc /\ Tail(lc)[p] = lc[p + 1]
      BY <1>1, Shift
    <3>2. All(Tail(lc), {"silence", "U11"}) /\ (All(lc, {"silence"}) => All(Tail(lc), {"silence"}))
      BY <2>1, <3>1 DEF Rising, All
    <3>3. \A p \in DOMAIN Tail(lc) : \A q \in DOMAIN Tail(lc) :
             p <= q /\ Tail(lc)[p] = "U11" => Tail(lc)[q] = "U11"
      BY <2>1, <3>1 DEF Rising
    <3>. QED BY <3>2, <3>3 DEF Rising
  <2>4. CASE /\ CallerListens(s, Tail(lc)) /\ o = "silence"
             /\ ~c.carrier /\ All(lc, {"silence"}) => ~s.carrier
    <3>1. All(m, {"silence"})
      BY <1>3, <2>1, <2>4 DEF All
    <3>2. Listening(s, a, Tail(lc), m)
      BY <2>1, <2>3, <2>4, <3>1 DEF Listening
    <3>. QED BY <1>4, <3>2 DEF Before, s, o, h
  <2>5. CASE /\ CallerAnswers(s) /\ All(lc, {"U11"}) /\ c.carrier
             /\ o \in {"S1", "S11"} /\ s.tx = o /\ (s.tx = "S1" => s.tx_count = 1)
    <3>1. a.tx = "U11"
      BY <1>4, <2>1, <2>5
    <3>2. All(Tail(lc), {"U11"})
      BY <1>1, <2>5, Shift DEF All
    <3>. DEFINE f == Len(la) + 1
    <3>3. \A p \in DOMAIN la : p \in Nat /\ p < f /\ la[p] = "silence"
      BY <1>1, <2>1, Places DEF All
    <3>4. s.tx = "S1" => s.max = 2400
      BY <2>5 DEF CallerAnswers
    <3>5. Burst(s, m, f)
      BY <1>1, <1>3, <2>5, <3>3, <3>4 DEF Burst
    <3>6. AnswererHears(s, a, f) /\ f \in Int
      BY <1>1, <2>1 DEF AnswererWaits, AnswererHears
    <3>7. Answering(s, a, Tail(lc), m)
      BY <2>5, <3>1, <3>2, <3>5, <3>6 DEF Answering
    <3>. QED BY <1>4, <3>7 DEF Before, s, o, h
  <2>. QED BY <2>2, <2>4, <2>5
<1>6. CASE Answering(c, a, lc, la)
  <2>1. CallerAnswers(c) /\ All(lc, {"U11"}) /\ a.tx = "U11"
    BY <1>6 DEF Answering
  <2>2. PICK f \in Int : Burst(c, la, f) /\ AnswererHears(c, a, f)
    BY <1>6 DEF Answering
  <2>3. level = TRUE /\ Head(lc) = "U11"
    BY <1>1, <2>1 DEF All
  <2>4. /\ CallerAnswers(s) /\ o = c.tx
        /\ s.tx = "S1" => c.tx = "S1" /\ s.tx_count = c.tx_count + 1
    <3>1. h = Receive(c, TRUE, "U11")
      BY <2>3
    <3>. QED BY <2>1, <3>1, CallerAnswersOn
  <2>. HIDE DEF s, o, h
  <2>5. All(Tail(lc), {"U11"})
    BY <1>1, <2>1, Shift DEF All
  <2>6. s.max = c.max /\ c.tx_count \in Nat
    BY <1>2 DEF Same, IsModem
  <2>7. c.tx \in {"S1", "S11"} /\ (c.tx = "S1" => c.tx_count < 60 /\ c.max = 2400)
    BY <2>1 DEF CallerAnswers
  <2>8. Burst(s, m, f)
    <3>1. /\ f <= Len(la) + 1
          /\ \A p \in DOMAIN la : /\ p < f => la[p] = "silence"
                                  /\ p >= f => la[p] \in {"S1", "S11"}
                                  /\ la[p] = "S1" => p < f + 60 /\ c.max = 2400
          /\ c.tx = "S1" => f + c.tx_count = Len(la) + 1
      BY <2>2 DEF Burst
    <3>2. ASSUME NEW p \in DOMAIN m
          PROVE  /\ p < f => m[p] = "silence"
                 /\ p >= f => m[p] \in {"S1", "S11"}
                 /\ m[p] = "S1" => p < f + 60 /\ s.max = 2400
      <4>1. CASE p = Len(la) + 1 /\ m[p] = o
        BY <1>1, <2>4, <2>6, <2>7, <3>1, <4>1
      <4>2. CASE p \in DOMAIN la /\ m[p] = la[p]
        BY <2>6, <3>1, <4>2
      <4>. QED BY <1>3, <4>1, <4>2
    <3>3. s.tx = "S1" => f + s.tx_count = Len(m) + 1
      BY <1>1, <1>3, <2>4, <2>6, <3>1
    <3>4. f <= Len(m) + 1
      BY <1>1, <1>3, <3>1
    <3>. QED BY <3>2, <3>3, <3>4 DEF Burst
  <2>9. AnswererHears(s, a, f)
    BY <2>2, <2>6 DEF AnswererHears
  <2>10. Answering(s, a, Tail(lc), m)
    BY <2>1, <2>4, <2>5, <2>8, <2>9 DEF Answering
  <2>. QED BY <1>4, <2>10 DEF Before, s, o, h
<1>. QED BY <1>5, <1>6 DEF Before

\* The caller's turn after that: it hears the next symbol of the answerer, and its own
\* place in the training is one further (v22bis_rx.c:235, v22bis_tx.c:92).
LEMMA CallerTurnAfter ==
    ASSUME NEW c, NEW a, IsModem(c), IsModem(a), c.calling,
           NEW lc \in Seq(Signals), NEW la \in Seq(Signals),
           Len(lc) > c.lead, NEW k \in Nat, k > 0, Settled(c, a, lc, la, k)
    PROVE  LET h == Receive(c, lc[1 + c.lead] # "silence", Head(lc))
           IN  Settled(Transmit(h), a, Tail(lc), Append(la, Sent(h)), k)
<1>. DEFINE u == k - Len(lc)
            v == u - Len(la)
            sig == Head(lc)
            h == Receive(c, TRUE, sig)
            s == Transmit(h)
            o == Sent(h)
            slow == /\ u + 1 > 0 => SlowCaller(s, u + 1)
                    /\ o \in SlowFromCaller[u]
            fast == /\ u + 1 > 0 => FastCaller(s, u + 1)
                    /\ u + 1 <= 0 => s.max = 2400
                    /\ o \in FastFromCaller[u]
            answers == u + 1 <= 0 => CallerAnswers(s)
<1>1. /\ c.lead \in Nat /\ 1 + c.lead \in DOMAIN lc /\ 1 + c.lead \in Nat
      /\ Len(lc) \in Nat /\ Len(lc) > 0 /\ Len(la) \in Nat
      /\ Tail(lc) \in Seq(Signals) /\ Len(Tail(lc)) = Len(lc) - 1 /\ sig \in Signals
  <2>1. c.lead \in Nat
    BY Constants DEF IsModem
  <2>. QED BY <2>1, Places, Shift
<1>2. u \in Int /\ v \in Int /\ u = v + Len(la)
  BY <1>1
<1>3. /\ Tuned(a) /\ Tuned(c) /\ (u <= 0 => CallerAnswers(c))
      /\ Slow(c, a, lc, la, k, u, v) \/ Fast(c, a, lc, la, k, u, v)
  BY DEF Settled
<1>5. /\ o \in Signals /\ Append(la, o) \in Seq(Signals) /\ Len(Append(la, o)) = Len(la) + 1
      /\ Same(s, c)
  <2>1. o \in Signals /\ Same(s, c)
    BY <1>1, TurnTyped
  <2>. QED BY <2>1, Push
<1>6. /\ k - Len(Tail(lc)) = u + 1
      /\ k - Len(Tail(lc)) - Len(Append(la, o)) = v
  BY <1>1, <1>5
<1>7. u < 0 \/ u = 0 \/ u > 0
  BY <1>2
<1>8. u > 0 => u \in Nat
  BY <1>2
<1>. HIDE DEF u, v, s, o
<1>4. (lc[1 + c.lead] # "silence") = TRUE
  <2>1. Follows(lc, SlowFromAnswerer, u) \/ Follows(lc, FastFromAnswerer, u)
    BY <1>3 DEF Slow, Fast
  <2>2. CASE Follows(lc, SlowFromAnswerer, u)
    <3>1. \A n \in Int : "silence" \notin SlowFromAnswerer[n]
      BY NoSilence
    <3>. QED BY <1>1, <1>2, <2>2, <3>1, Audible
  <2>3. CASE Follows(lc, FastFromAnswerer, u)
    <3>1. \A n \in Int : "silence" \notin FastFromAnswerer[n]
      BY NoSilence
    <3>. QED BY <1>1, <1>2, <2>3, <3>1, Audible
  <2>. QED BY <2>1, <2>2, <2>3
<1>9. u <= 0 => CallerAnswers(c) /\ c.rx = "unscrambled_sustaining"
  BY <1>3 DEF CallerAnswers
<1>10. ASSUME u < 0 PROVE CallerAnswers(s) /\ o = c.tx /\ o \in {"S1", "S11"} 
  <2>1. CallerAnswers(c)
    BY <1>9, <1>10, <1>2
  <2>2. sig \in SlowFromAnswerer[u] \/ sig \in FastFromAnswerer[u]
    BY <1>1, <1>2, <1>3, FollowsOn DEF Slow, Fast
  <2>3. sig = "U11"
    BY <1>2, <1>10, <2>2, NoSilence
  <2>4. h = Receive(c, TRUE, "U11")
    BY <2>3
  <2>5. CallerAnswers(s) /\ o = c.tx
    BY <2>1, <2>4, CallerAnswersOn DEF s, o
  <2>. QED BY <2>1, <2>5 DEF CallerAnswers
<1>11. CASE Slow(c, a, lc, la, k, u, v)
  <2>1. /\ SlowAnswerer(a, k) /\ (u > 0 => SlowCaller(c, u))
        /\ Follows(lc, SlowFromAnswerer, u) /\ Follows(la, SlowFromCaller, v)
    BY <1>11 DEF Slow
  <2>2. sig \in SlowFromAnswerer[u] /\ Follows(Tail(lc), SlowFromAnswerer, u + 1)
    BY <1>1, <1>2, <2>1, FollowsOn
  <2>3. slow /\ answers /\ Tuned(s)
    <3>1. CASE u < 0
      BY <1>2, <1>10, <3>1, NoSilence DEF CallerAnswers
    <3>2. CASE u = 0
      <4>1. CallerAnswers(c) /\ sig = "S11"
        BY <1>2, <1>9, <2>2, <3>2, NoSilence
      <4>2. Tuned(s) /\ o = "S11" /\ SlowCaller(s, 1)
        <5>1. sig \in {"S1", "S11"} /\ CallerAnswers(c)
          BY <4>1
        <5>2. Tuned(s) /\ o = "S11" /\ Begun(c, s, sig)
          BY <5>1, CallerBegins DEF s, o
        <5>. QED BY <4>1, <5>2 DEF Begun
      <4>. QED BY <3>2, <4>2, NoSilence
    <3>3. CASE u > 0
      <4>1. u \in Nat /\ SlowCaller(c, u) /\ Tuned(c)
        BY <1>3, <1>8, <2>1, <3>3
      <4>2. Tuned(s) /\ SlowCaller(s, u + 1) /\ o \in SlowFromCaller[u]
        BY <2>2, <3>3, <4>1, SlowCallerOn DEF s, o
      <4>3. ~(u + 1 <= 0)
        BY <3>3, <4>1
      <4>. QED BY <4>2, <4>3
    <3>. QED BY <1>7, <3>1, <3>2, <3>3
  <2>4. Follows(Append(la, o), SlowFromCaller, v)
    BY <1>2, <1>5, <2>1, <2>3, FollowsPushed
  <2>5. Slow(s, a, Tail(lc), Append(la, o), k, u + 1, v)
    BY <2>1, <2>2, <2>3, <2>4 DEF Slow
  <2>6. Settled(s, a, Tail(lc), Append(la, o), k)
    BY <1>3, <1>6, <2>3, <2>5 DEF Settled
  <2>. QED BY <1>4, <2>6 DEF s, o
<1>12. CASE Fast(c, a, lc, la, k, u, v)
  <2>1. /\ FastAnswerer(a, k, v) /\ (u > 0 => FastCaller(c, u)) /\ (u <= 0 => c.max = 2400)
        /\ Follows(lc, FastFromAnswerer, u) /\ Follows(la, FastFromCaller, v)
    BY <1>12 DEF Fast
  <2>2. sig \in FastFromAnswerer[u] /\ Follows(Tail(lc), FastFromAnswerer, u + 1)
    BY <1>1, <1>2, <2>1, FollowsOn
  <2>3. fast /\ answers /\ Tuned(s)
    <3>1. CASE u < 0
      <4>1. CallerAnswers(s) /\ o \in FastFromCaller[u]
        BY <1>2, <1>10, <3>1, NoSilence
      <4>2. s.max = 2400 /\ Tuned(s)
        BY <1>2, <1>5, <2>1, <3>1, <4>1 DEF Same, CallerAnswers
      <4>3. ~(u + 1 > 0)
        BY <1>2, <3>1
      <4>. QED BY <4>1, <4>2, <4>3
    <3>2. CASE u = 0
      <4>1. CallerAnswers(c) /\ sig = "S1" /\ c.max = 2400
        BY <1>2, <1>9, <2>1, <2>2, <3>2, NoSilence
      <4>2. Tuned(s) /\ o = "S11" /\ FastCaller(s, 1)
        <5>1. sig = "S1"
          BY <4>1
        <5>2. sig \in {"S1", "S11"} /\ CallerAnswers(c)
          BY <4>1
        <5>3. Tuned(s) /\ o = "S11" /\ Begun(c, s, sig)
          BY <5>2, CallerBegins DEF s, o
        <5>. QED BY <4>1, <5>3 DEF Begun
      <4>. QED BY <3>2, <4>2, NoSilence
    <3>3. CASE u > 0
      <4>1. u \in Nat /\ FastCaller(c, u) /\ Tuned(c)
        BY <1>3, <1>8, <2>1, <3>3
      <4>2. Tuned(s) /\ FastCaller(s, u + 1) /\ o \in FastFromCaller[u]
        BY <2>2, <3>3, <4>1, FastCallerOn DEF s, o
      <4>3. ~(u + 1 <= 0)
        BY <3>3, <4>1
      <4>. QED BY <4>2, <4>3
    <3>. QED BY <1>7, <3>1, <3>2, <3>3
  <2>4. Follows(Append(la, o), FastFromCaller, v)
    BY <1>2, <1>5, <2>1, <2>3, FollowsPushed
  <2>5. Fast(s, a, Tail(lc), Append(la, o), k, u + 1, v)
    BY <2>1, <2>2, <2>3, <2>4 DEF Fast
  <2>6. Settled(s, a, Tail(lc), Append(la, o), k)
    BY <1>3, <1>6, <2>3, <2>5 DEF Settled
  <2>. QED BY <1>4, <2>6 DEF s, o
<1>. QED BY <1>3, <1>11, <1>12

-----------------------------------------------------------------------------
(* A turn of the answerer. *)

\* The answerer's turn until it settles: the turn in which it does makes the symbol it
\* sends the first of the rate it took (v22bis_rx.c:255).
LEMMA AnswererTurnBefore ==
    ASSUME NEW c, NEW a, IsModem(c), IsModem(a), ~a.calling,
           NEW lc \in Seq(Signals), NEW la \in Seq(Signals),
           Len(la) > a.lead + 1, Before(c, a, lc, la)
    PROVE  LET h == Receive(a, la[1 + a.lead] # "silence", Head(la))
               s == Transmit(h)
               m == Append(lc, Sent(h))
           IN  Before(c, s, m, Tail(la)) \/ After(c, s, m, Tail(la))
<1>. DEFINE level == la[1 + a.lead] # "silence"
            h == Receive(a, level, Head(la))
            s == Transmit(h)
            o == Sent(h)
            m == Append(lc, o)
            ta == Tail(la)
<1>1. /\ a.lead \in Nat /\ Len(la) \in Nat /\ Len(la) > 0 /\ Len(lc) \in Nat
      /\ 1 + a.lead \in DOMAIN la /\ Head(la) \in Signals
      /\ ta \in Seq(Signals) /\ Len(ta) = Len(la) - 1
      /\ \A p \in DOMAIN ta : /\ p \in Nat /\ p > 0 /\ p <= Len(ta)
                                    /\ p + 1 \in DOMAIN la /\ ta[p] = la[p + 1]
      /\ \A p \in DOMAIN lc : p \in Nat /\ p > 0 /\ p <= Len(lc)
  <2>1. a.lead \in Nat
    BY Constants DEF IsModem
  <2>2. ta \in Seq(Signals) /\ Len(la) \in Nat
    BY <2>1, Places, Shift
  <2>. QED BY <2>1, <2>2, Places, Shift
<1>. HIDE DEF ta
<1>2. o \in Signals /\ Same(s, a)
  <2>1. level \in BOOLEAN
    OBVIOUS
  <2>. QED BY <1>1, <2>1, TurnTyped
<1>3. /\ m \in Seq(Signals) /\ Len(m) = Len(lc) + 1
      /\ \A p \in DOMAIN m : (p = Len(lc) + 1 /\ m[p] = o) \/ (p \in DOMAIN lc /\ m[p] = lc[p])
  BY <1>2, Push
<1>4. a.tx \in {"silence", "U11"} /\ ~a.sixteen_way
  BY DEF Before
<1>5. CASE Listening(c, a, lc, la)
  <2>1. /\ CallerListens(c, lc) /\ All(la, {"silence"}) /\ AnswererWaits(a) /\ Rising(lc)
        /\ a.tx = "silence" => All(lc, {"silence"}) /\ ~c.carrier
    BY <1>5 DEF Listening
  <2>2. level = FALSE
    BY <1>1, <2>1 DEF All
  <2>3. /\ AnswererWaits(s) /\ ~s.sixteen_way /\ o = a.tx
        /\ s.tx \in {"silence", "U11"} /\ (a.tx = "U11" => s.tx = "U11")
    <3>1. h = Receive(a, FALSE, Head(la))
      BY <2>2
    <3>. QED BY <1>1, <1>4, <2>1, <3>1, AnswererWaitsOn
  <2>. HIDE DEF s, o, h, m
  <2>4. All(ta, {"silence"})
    BY <1>1, <2>1 DEF All
  <2>5. c.carrier => o = "U11"
    BY <1>4, <2>1, <2>3
  <2>6. CallerListens(c, m)
    BY <1>3, <2>1, <2>5 DEF CallerListens, All, Tuned
  <2>7. Rising(m)
    <3>1. All(m, {"silence", "U11"})
      BY <1>3, <1>4, <2>1, <2>3 DEF Rising, All
    <3>2. ASSUME NEW p \in DOMAIN m, NEW q \in DOMAIN m, p <= q, m[p] = "U11"
          PROVE  m[q] = "U11"
      <4>1. CASE q \in DOMAIN lc /\ m[q] = lc[q]
        <5>1. p \in DOMAIN lc /\ m[p] = lc[p]
          BY <1>1, <1>3, <3>2, <4>1
        <5>. QED BY <2>1, <3>2, <4>1, <5>1 DEF Rising
      <4>2. CASE q = Len(lc) + 1 /\ m[q] = o
        <5>1. CASE p \in DOMAIN lc /\ m[p] = lc[p]
          BY <1>4, <2>1, <2>3, <3>2, <4>2, <5>1 DEF All
        <5>2. CASE p = Len(lc) + 1 /\ m[p] = o
          BY <3>2, <4>2, <5>2
        <5>. QED BY <1>3, <5>1, <5>2
      <4>. QED BY <1>3, <4>1, <4>2
    <3>. QED BY <3>1, <3>2 DEF Rising
  <2>8. s.tx = "silence" => All(m, {"silence"}) /\ ~c.carrier
    BY <1>3, <1>4, <2>1, <2>3 DEF All
  <2>9. Before(c, s, m, ta)
    BY <2>3, <2>4, <2>6, <2>7, <2>8 DEF Before, Listening
  <2>. QED BY <2>9 DEF s, o, h, m, ta
<1>6. CASE Answering(c, a, lc, la)
  <2>1. CallerAnswers(c) /\ All(lc, {"U11"}) /\ a.tx = "U11"
    BY <1>6 DEF Answering
  <2>2. PICK f \in Int : Burst(c, la, f) /\ AnswererHears(c, a, f)
    BY <1>6 DEF Answering
  <2>3. \/ /\ AnswererHears(c, s, f - 1) /\ s.tx = "U11" /\ ~s.sixteen_way
           /\ o = "U11"
        \/ /\ Tuned(s) /\ f <= 0
           /\ \/ SlowAnswerer(s, 1) /\ o = "S11"
              \/ /\ \A v \in Int : FastAnswerer(s, 1, v)
                 /\ o = "S1" /\ c.max = 2400
    BY <1>4, <2>1, <2>2, AnswererHearsOn
  <2>. HIDE DEF s, o, h, m
  <2>4. /\ f <= Len(la) + 1
        /\ \A p \in DOMAIN la : /\ p < f => la[p] = "silence"
                                /\ p >= f => la[p] \in {"S1", "S11"}
                                /\ la[p] = "S1" => p < f + 60 /\ c.max = 2400
        /\ c.tx = "S1" => f + c.tx_count = Len(la) + 1
    BY <2>2 DEF Burst
  <2>5. CASE AnswererHears(c, s, f - 1) /\ s.tx = "U11" /\ ~s.sixteen_way /\ o = "U11"
    <3>1. All(m, {"U11"})
      BY <1>3, <2>1, <2>5 DEF All
    <3>2. c.tx_count \in Nat
      BY DEF IsModem
    <3>3. Burst(c, ta, f - 1) /\ f - 1 \in Int
      <4>1. \A p \in DOMAIN ta :
               /\ p < f - 1 => ta[p] = "silence"
               /\ p >= f - 1 => ta[p] \in {"S1", "S11"}
               /\ ta[p] = "S1" => p < f - 1 + 60 /\ c.max = 2400
        BY <1>1, <2>4, SMTT(30)
      <4>2. f - 1 <= Len(ta) + 1 /\ (c.tx = "S1" => f - 1 + c.tx_count = Len(ta) + 1)
        BY <1>1, <2>4, <3>2, SMTT(30)
      <4>. QED BY <4>1, <4>2 DEF Burst
    <3>4. Answering(c, s, m, ta)
      BY <2>1, <2>5, <3>1, <3>3 DEF Answering
    <3>. QED BY <2>5, <3>4 DEF Before, s, o, h, m, ta
  <2>6. ASSUME Tuned(s), f <= 0 PROVE
          LET u == 1 - Len(m)
              v == u - Len(ta)
          IN  /\ Tuned(c) /\ u \in Int /\ v \in Int /\ u <= 0
              /\ o = "S11" => Follows(m, SlowFromAnswerer, u)
              /\ o = "S1" => Follows(m, FastFromAnswerer, u)
              /\ Follows(ta, SlowFromCaller, v) /\ Follows(ta, FastFromCaller, v)
    <3>. DEFINE u == 1 - Len(m)
                v == u - Len(ta)
    <3>1. u = 0 - Len(lc) /\ u \in Int /\ v \in Int /\ u <= 0 /\ v = 1 - Len(lc) - Len(la)
      BY <1>1, <1>3
    <3>. HIDE DEF u, v
    <3>2. ASSUME NEW p \in DOMAIN m
          PROVE  /\ o = "S11" => m[p] \in SlowFromAnswerer[u + p - 1]
                 /\ o = "S1" => m[p] \in FastFromAnswerer[u + p - 1]
      <4>1. CASE p = Len(lc) + 1 /\ m[p] = o
        <5>1. u + p - 1 = 0
          BY <1>1, <3>1, <4>1
        <5>. QED BY <4>1, <5>1, NoSilence
      <4>2. CASE p \in DOMAIN lc /\ m[p] = lc[p]
        <5>1. u + p - 1 < 0 /\ u + p - 1 \in Int
          BY <1>1, <3>1, <4>2
        <5>2. m[p] = "U11"
          BY <2>1, <4>2 DEF All
        <5>. QED BY <5>1, <5>2, NoSilence
      <4>. QED BY <1>3, <4>1, <4>2
    <3>3. ASSUME NEW p \in DOMAIN ta
          PROVE  ta[p] \in SlowFromCaller[v + p - 1] /\ ta[p] \in FastFromCaller[v + p - 1]
      <4>1. v + p - 1 <= 0 /\ v + p - 1 \in Int
        BY <1>1, <3>1, SMTT(30)
      <4>2. ta[p] \in {"S1", "S11"}
        BY <1>1, <2>4, <2>6
      <4>. QED BY <4>1, <4>2, NoSilence
    <3>4. Tuned(c)
      BY <2>1 DEF CallerAnswers
    <3>5. /\ o = "S11" => Follows(m, SlowFromAnswerer, u)
          /\ o = "S1" => Follows(m, FastFromAnswerer, u)
          /\ Follows(ta, SlowFromCaller, v) /\ Follows(ta, FastFromCaller, v)
      BY <3>2, <3>3 DEF Follows
    <3>. QED BY <3>1, <3>4, <3>5 DEF u, v
  <2>7. CASE Tuned(s) /\ f <= 0 /\ SlowAnswerer(s, 1) /\ o = "S11"
    <3>. DEFINE u == 1 - Len(m)
                v == u - Len(ta)
    <3>1. /\ Tuned(c) /\ u \in Int /\ v \in Int /\ u <= 0
          /\ Follows(m, SlowFromAnswerer, u) /\ Follows(ta, SlowFromCaller, v)
      BY <2>6, <2>7
    <3>2. ~(u > 0)
      BY <3>1
    <3>3. Slow(c, s, m, ta, 1, u, v)
      BY <2>7, <3>1, <3>2 DEF Slow
    <3>4. Settled(c, s, m, ta, 1)
      BY <2>1, <2>7, <3>1, <3>3, SettledIs
    <3>. QED BY <3>4 DEF After, s, o, h, m, ta
  <2>8. CASE /\ Tuned(s) /\ f <= 0 /\ \A v \in Int : FastAnswerer(s, 1, v)
             /\ o = "S1" /\ c.max = 2400
    <3>. DEFINE u == 1 - Len(m)
                v == u - Len(ta)
    <3>1. /\ Tuned(c) /\ u \in Int /\ v \in Int /\ u <= 0
          /\ Follows(m, FastFromAnswerer, u) /\ Follows(ta, FastFromCaller, v)
      BY <2>6, <2>8
    <3>2. ~(u > 0)
      BY <3>1
    <3>3. Fast(c, s, m, ta, 1, u, v)
      BY <2>8, <3>1, <3>2 DEF Fast
    <3>4. Settled(c, s, m, ta, 1)
      BY <2>1, <2>8, <3>1, <3>3, SettledIs
    <3>. QED BY <3>4 DEF After, s, o, h, m, ta
  <2>. QED BY <2>3, <2>5, <2>7, <2>8
<1>. QED BY <1>5, <1>6 DEF Before

\* The answerer's turn after that: it sends one more symbol of that rate and hears one
\* more of the caller's (v22bis_rx.c:272, v22bis_tx.c:92).
LEMMA AnswererTurnAfter ==
    ASSUME NEW c, NEW a, IsModem(c), IsModem(a), ~a.calling,
           NEW lc \in Seq(Signals), NEW la \in Seq(Signals),
           Len(la) > a.lead + 1, NEW k \in Nat, k > 0, Settled(c, a, lc, la, k)
    PROVE  LET h == Receive(a, la[1 + a.lead] # "silence", Head(la))
           IN  Settled(c, Transmit(h), Append(lc, Sent(h)), Tail(la), k + 1)
<1>. DEFINE u == k - Len(lc)
            v == u - Len(la)
            sig == Head(la)
            h == Receive(a, TRUE, sig)
            s == Transmit(h)
            o == Sent(h)
            ta == Tail(la)
<1>1. /\ a.lead \in Nat /\ 1 + a.lead \in DOMAIN la /\ 1 + a.lead \in Nat
      /\ Len(la) \in Nat /\ Len(la) > 0 /\ Len(lc) \in Nat
      /\ ta \in Seq(Signals) /\ Len(ta) = Len(la) - 1 /\ sig \in Signals
  <2>1. a.lead \in Nat
    BY Constants DEF IsModem
  <2>2. Len(la) \in Nat /\ Len(la) > 0
    BY <2>1, Places
  <2>. QED BY <2>1, <2>2, Places, Shift
<1>. HIDE DEF ta
<1>2. u \in Int /\ v \in Int /\ k = u + Len(lc) /\ v < k
  BY <1>1
<1>3. /\ Tuned(a) /\ Tuned(c) /\ (u <= 0 => CallerAnswers(c))
      /\ Slow(c, a, lc, la, k, u, v) \/ Fast(c, a, lc, la, k, u, v)
  BY DEF Settled
<1>4. o \in Signals /\ Append(lc, o) \in Seq(Signals) /\ Len(Append(lc, o)) = Len(lc) + 1
  <2>1. o \in Signals
    BY <1>1, TurnTyped
  <2>. QED BY <2>1, Push
<1>5. /\ k + 1 - Len(Append(lc, o)) = u
      /\ u - Len(ta) = v + 1 /\ k + 1 \in Nat
  BY <1>1, <1>4
<1>. HIDE DEF u, v, s, o
<1>6. (la[1 + a.lead] # "silence") = TRUE
  <2>1. Follows(la, SlowFromCaller, v) \/ Follows(la, FastFromCaller, v)
    BY <1>3 DEF Slow, Fast
  <2>2. CASE Follows(la, SlowFromCaller, v)
    <3>1. \A n \in Int : "silence" \notin SlowFromCaller[n]
      BY NoSilence
    <3>. QED BY <1>1, <1>2, <2>2, <3>1, Audible
  <2>3. CASE Follows(la, FastFromCaller, v)
    <3>1. \A n \in Int : "silence" \notin FastFromCaller[n]
      BY NoSilence
    <3>. QED BY <1>1, <1>2, <2>3, <3>1, Audible
  <2>. QED BY <2>1, <2>2, <2>3
<1>7. CASE Slow(c, a, lc, la, k, u, v)
  <2>1. /\ SlowAnswerer(a, k) /\ (u > 0 => SlowCaller(c, u))
        /\ Follows(lc, SlowFromAnswerer, u) /\ Follows(la, SlowFromCaller, v)
    BY <1>7 DEF Slow
  <2>2. Follows(ta, SlowFromCaller, v + 1)
    BY <1>1, <1>2, <2>1, FollowsOn DEF ta
  <2>3. Tuned(s) /\ SlowAnswerer(s, k + 1) /\ o \in SlowFromAnswerer[k]
    BY <1>1, <1>3, <2>1, SlowAnswererOn DEF s, o
  <2>4. Follows(Append(lc, o), SlowFromAnswerer, u)
    BY <1>2, <1>4, <2>1, <2>3, FollowsPushed
  <2>5. Slow(c, s, Append(lc, o), ta, k + 1, u, v + 1)
    BY <2>1, <2>2, <2>3, <2>4 DEF Slow
  <2>6. Settled(c, s, Append(lc, o), ta, k + 1)
    <3>. DEFINE n == k + 1
    <3>1. /\ u = n - Len(Append(lc, o)) /\ v + 1 = u - Len(ta)
          /\ Tuned(s) /\ Tuned(c) /\ (u <= 0 => CallerAnswers(c))
      BY <1>3, <1>5, <2>3
    <3>2. Slow(c, s, Append(lc, o), ta, n, u, v + 1)
      BY <2>5
    <3>. HIDE DEF n
    <3>3. Settled(c, s, Append(lc, o), ta, n)
      BY <3>1, <3>2, SettledIs
    <3>. QED BY <3>3 DEF n
  <2>. QED BY <1>6, <2>6 DEF s, o, ta
<1>8. CASE Fast(c, a, lc, la, k, u, v)
  <2>1. /\ FastAnswerer(a, k, v) /\ (u > 0 => FastCaller(c, u)) /\ (u <= 0 => c.max = 2400)
        /\ Follows(lc, FastFromAnswerer, u) /\ Follows(la, FastFromCaller, v)
    BY <1>8 DEF Fast
  <2>2. sig \in FastFromCaller[v] /\ Follows(ta, FastFromCaller, v + 1)
    BY <1>1, <1>2, <2>1, FollowsOn DEF ta
  <2>3. Tuned(s) /\ FastAnswerer(s, k + 1, v + 1) /\ o \in FastFromAnswerer[k]
    <3>1. FastAnswerer(a, k, v) /\ sig \in FastFromCaller[v] /\ v \in Int /\ v < k /\ Tuned(a)
      BY <1>2, <1>3, <2>1, <2>2
    <3>. HIDE DEF sig
    <3>. QED BY <3>1, FastAnswererOn DEF s, o
  <2>4. Follows(Append(lc, o), FastFromAnswerer, u)
    BY <1>2, <1>4, <2>1, <2>3, FollowsPushed
  <2>5. Fast(c, s, Append(lc, o), ta, k + 1, u, v + 1)
    BY <2>1, <2>2, <2>3, <2>4 DEF Fast
  <2>6. Settled(c, s, Append(lc, o), ta, k + 1)
    <3>. DEFINE n == k + 1
    <3>1. /\ u = n - Len(Append(lc, o)) /\ v + 1 = u - Len(ta)
          /\ Tuned(s) /\ Tuned(c) /\ (u <= 0 => CallerAnswers(c))
      BY <1>3, <1>5, <2>3
    <3>2. Fast(c, s, Append(lc, o), ta, n, u, v + 1)
      BY <2>5
    <3>. HIDE DEF n
    <3>3. Settled(c, s, Append(lc, o), ta, n)
      BY <3>1, <3>2, SettledIs
    <3>. QED BY <3>3 DEF n
  <2>. QED BY <1>6, <2>6 DEF s, o, ta
<1>. QED BY <1>3, <1>7, <1>8

-----------------------------------------------------------------------------
(* The start-up. *)

\* There are two modems.
LEMMA FarIs == Far("calling") = "answering" /\ Far("answering") = "calling"
<1>1. \A m \in Modems : \E n \in Modems : n # m
  BY DEF Modems
<1>. QED BY <1>1 DEF Far, Modems

\* A turn of the caller on a clean line (modem_v22bis.c:211).
LEMMA CallerTurn ==
    ASSUME NEW c, NEW a, NEW lc, NEW la, Training(c, a, lc, la, "calling")
    PROVE  LET h == Receive(c, lc[1 + c.lead] # "silence", Head(lc))
           IN  Training(Transmit(h), a, Tail(lc), Append(la, Sent(h)), "answering")
<1>. DEFINE level == lc[1 + c.lead] # "silence"
            h == Receive(c, level, Head(lc))
            s == Transmit(h)
            o == Sent(h)
            l == Tail(lc)
            m == Append(la, o)
<1>1. /\ IsModem(c) /\ IsModem(a)
      /\ lc \in Seq(Signals) /\ la \in Seq(Signals)
      /\ Len(lc) > c.lead /\ Len(la) > a.lead
      /\ Before(c, a, lc, la) \/ After(c, a, lc, la)
  BY DEF Training, Sized
<1>2. c.calling
  BY DEF Training
<1>3. ~a.calling
  BY DEF Training
<1>4. /\ c.lead \in Nat /\ a.lead \in Nat /\ Len(lc) \in Nat /\ Len(lc) > 0 /\ Len(la) \in Nat
      /\ Head(lc) \in Signals /\ l \in Seq(Signals) /\ Len(l) = Len(lc) - 1
  <2>1. c.lead \in Nat /\ a.lead \in Nat
    BY <1>1, Constants DEF IsModem
  <2>2. Len(lc) \in Nat /\ Len(la) \in Nat
    BY <1>1, Places
  <2>. QED BY <1>1, <2>1, <2>2, Shift
<1>5. IsModem(s) /\ Same(s, c) /\ o \in Signals
  <2>1. level \in BOOLEAN
    OBVIOUS
  <2>. QED BY <1>1, <1>4, <2>1, TurnTyped
<1>6. m \in Seq(Signals) /\ Len(m) = Len(la) + 1
  BY <1>1, <1>5, Push
<1>7. Before(s, a, l, m) \/ After(s, a, l, m)
  <2>1. CASE Before(c, a, lc, la)
    BY <1>1, <1>2, <2>1, CallerTurnBefore
  <2>2. CASE After(c, a, lc, la)
    <3>1. PICK k \in Nat \ {0} : Settled(c, a, lc, la, k)
      BY <2>2 DEF After
    <3>2. k \in Nat /\ k > 0
      OBVIOUS
    <3>3. Settled(s, a, l, m, k)
      BY <1>1, <1>2, <3>1, <3>2, CallerTurnAfter
    <3>. QED BY <3>3 DEF After
  <2>. QED BY <1>1, <2>1, <2>2
<1>. HIDE DEF s, l, m
<1>8. s.calling
  BY <1>2, <1>5 DEF Same
<1>9. s.lead = c.lead
  BY <1>5 DEF Same
<1>10. Sized(s, a, l, m, "answering")
  BY <1>1, <1>4, <1>6, <1>9 DEF Sized
<1>11. Training(s, a, l, m, "answering")
  BY <1>1, <1>3, <1>5, <1>7, <1>8, <1>10 DEF Training
<1>. QED BY <1>11 DEF s, l, m

\* A turn of the answerer on a clean line (modem_v22bis.c:211).
LEMMA AnswererTurn ==
    ASSUME NEW c, NEW a, NEW lc, NEW la, Training(c, a, lc, la, "answering")
    PROVE  LET h == Receive(a, la[1 + a.lead] # "silence", Head(la))
           IN  Training(c, Transmit(h), Append(lc, Sent(h)), Tail(la), "calling")
<1>. DEFINE level == la[1 + a.lead] # "silence"
            h == Receive(a, level, Head(la))
            s == Transmit(h)
            o == Sent(h)
            l == Tail(la)
            m == Append(lc, o)
<1>1. /\ IsModem(c) /\ IsModem(a)
      /\ lc \in Seq(Signals) /\ la \in Seq(Signals)
      /\ Len(lc) >= c.lead /\ Len(la) > a.lead + 1
      /\ Before(c, a, lc, la) \/ After(c, a, lc, la)
  BY DEF Training, Sized
<1>2. c.calling
  BY DEF Training
<1>3. ~a.calling
  BY DEF Training
<1>4. /\ c.lead \in Nat /\ a.lead \in Nat /\ Len(la) \in Nat /\ Len(la) > 0 /\ Len(lc) \in Nat
      /\ Head(la) \in Signals /\ l \in Seq(Signals) /\ Len(l) = Len(la) - 1
  <2>1. c.lead \in Nat /\ a.lead \in Nat
    BY <1>1, Constants DEF IsModem
  <2>2. Len(lc) \in Nat /\ Len(la) \in Nat
    BY <1>1, Places
  <2>. QED BY <1>1, <2>1, <2>2, Shift
<1>5. IsModem(s) /\ Same(s, a) /\ o \in Signals
  <2>1. level \in BOOLEAN
    OBVIOUS
  <2>. QED BY <1>1, <1>4, <2>1, TurnTyped
<1>6. m \in Seq(Signals) /\ Len(m) = Len(lc) + 1
  BY <1>1, <1>5, Push
<1>7. Before(c, s, m, l) \/ After(c, s, m, l)
  <2>1. CASE Before(c, a, lc, la)
    BY <1>1, <1>3, <2>1, AnswererTurnBefore
  <2>2. CASE After(c, a, lc, la)
    <3>1. PICK k \in Nat \ {0} : Settled(c, a, lc, la, k)
      BY <2>2 DEF After
    <3>2. k \in Nat /\ k > 0 /\ k + 1 \in Nat \ {0}
      OBVIOUS
    <3>3. Settled(c, s, m, l, k + 1)
      BY <1>1, <1>3, <3>1, <3>2, AnswererTurnAfter
    <3>. QED BY <3>2, <3>3 DEF After
  <2>. QED BY <1>1, <2>1, <2>2
<1>. HIDE DEF s, l, m
<1>8. ~s.calling
  BY <1>3, <1>5 DEF Same
<1>9. s.lead = a.lead
  BY <1>5 DEF Same
<1>10. Sized(c, s, m, l, "calling")
  BY <1>1, <1>4, <1>6, <1>9 DEF Sized
<1>11. Training(c, s, m, l, "calling")
  BY <1>1, <1>2, <1>5, <1>7, <1>8, <1>10 DEF Training
<1>. QED BY <1>11 DEF s, l, m

\* v22bis_init makes a modem (v22bis_tx.c:179).
LEMMA NewIs ==
    ASSUME NEW limit \in MaxRates, NEW busy \in BOOLEAN, NEW lead \in Leads,
           NEW settling \in Settlings
    PROVE  /\ IsModem(New(TRUE, limit, busy, lead, settling))
           /\ IsModem(New(FALSE, limit, busy, lead, settling))
<1>1. limit \in {1200, 2400}
  BY HandshakeAssumption DEF HandshakeAssumption
<1>. QED BY <1>1 DEF IsModem, New, RxStages, TxStages, Signals

\* The start-up begins with both modems and the line silent (v22bis_tx.c:179).
LEMMA TrainingInit == ASSUME Init PROVE TrainingInv
<1>1. PICK max \in [Modems -> MaxRates], busy \in BOOLEAN, lead \in Leads, settling \in Settlings :
          modem = [m \in Modems |-> New(m = "calling", max[m], busy, lead, settling)]
  BY DEF Init
<1>2. PICK lag \in Lags : line = [m \in Modems |-> [i \in 1..lag |-> "silence"]]
  BY DEF Init
<1>3. turn = "calling" /\ fade = [to |-> "none", left |-> 0]
  BY DEF Init
<1>. DEFINE c == modem["calling"]
            a == modem["answering"]
            l == [i \in 1..lag |-> "silence"]
<1>. HIDE DEF l
<1>4. /\ line["calling"] = l /\ line["answering"] = l /\ DOMAIN line = Modems
      /\ DOMAIN modem = Modems
  BY <1>1, <1>2 DEF Modems, l
<1>5. c = New(TRUE, max["calling"], busy, lead, settling)
  <2>1. c = New("calling" = "calling", max["calling"], busy, lead, settling)
    BY <1>1 DEF Modems
  <2>2. ("calling" = "calling") = TRUE
    OBVIOUS
  <2>. QED BY <2>1, <2>2
<1>6. a = New(FALSE, max["answering"], busy, lead, settling)
  <2>1. a = New("answering" = "calling", max["answering"], busy, lead, settling)
    BY <1>1 DEF Modems
  <2>2. ("answering" = "calling") = FALSE
    OBVIOUS
  <2>. QED BY <2>1, <2>2
<1>7. max["calling"] \in MaxRates /\ max["answering"] \in MaxRates
  <2>1. max \in [Modems -> MaxRates]
    OBVIOUS
  <2>2. "calling" \in Modems /\ "answering" \in Modems
    BY DEF Modems
  <2>. QED BY <2>1, <2>2
<1>8. lag \in Nat /\ lead \in Nat /\ lag > lead
  BY HandshakeAssumption DEF HandshakeAssumption
<1>. HIDE DEF c, a
<1>9. IsModem(c) /\ IsModem(a)
  <2>2. IsModem(New(TRUE, max["calling"], busy, lead, settling))
    BY <1>7, NewIs
  <2>3. IsModem(New(FALSE, max["answering"], busy, lead, settling))
    BY <1>7, NewIs
  <2>. QED BY <1>5, <1>6, <2>2, <2>3
<1>10. c.calling /\ ~a.calling /\ c.lead = lead /\ a.lead = lead
  BY <1>5, <1>6 DEF New
<1>11. l \in Seq(Signals) /\ Len(l) = lag /\ All(l, {"silence"})
  BY <1>8 DEF Signals, All, l
<1>12. Before(c, a, l, l)
  <2>1. CallerListens(c, l) /\ AnswererWaits(a) /\ ~c.carrier /\ a.tx = "silence" /\ ~a.sixteen_way
    BY <1>5, <1>6 DEF New, CallerListens, AnswererWaits
  <2>2. Rising(l)
    BY <1>11 DEF Rising, All
  <2>. QED BY <1>11, <2>1, <2>2 DEF Before, Listening
<1>13. Sized(c, a, l, l, "calling")
  BY <1>8, <1>10, <1>11 DEF Sized
<1>14. Training(c, a, l, l, "calling")
  BY <1>9, <1>10, <1>12, <1>13 DEF Training
<1>15. Training(modem["calling"], modem["answering"], line["calling"], line["answering"], turn)
  <2>1. line["calling"] = l /\ line["answering"] = l /\ turn = "calling"
    BY <1>3, <1>4
  <2>2. Training(c, a, line["calling"], line["answering"], turn)
    BY <1>14, <2>1
  <2>. QED BY <2>2 DEF c, a
<1>16. fade \in [to : Modems \cup {"none"}, left : Nat] /\ turn \in Modems
  BY <1>3 DEF Modems
<1>. QED BY <1>4, <1>15, <1>16 DEF TrainingInv

\* Every turn keeps the start-up on its course, as long as the line does not fade.
LEMMA TrainingNext == ASSUME TrainingInv, [Next]_vars PROVE TrainingInv'
<1>. DEFINE c == modem["calling"]
            a == modem["answering"]
            lc == line["calling"]
            la == line["answering"]
<1>1. /\ DOMAIN modem = Modems /\ DOMAIN line = Modems /\ turn \in Modems
      /\ fade \in [to : Modems \cup {"none"}, left : Nat]
      /\ Clean => Training(c, a, lc, la, turn)
  BY DEF TrainingInv
<1>2. "calling" \in Modems /\ "answering" \in Modems /\ "none" \notin Modems
  BY DEF Modems
<1>3. ASSUME NEW m \in Modems, Step(m) PROVE fade' \in [to : Modems \cup {"none"}, left : Nat] /\ fade'.to = fade.to
  <2>1. fade' = fade \/ (fade.left > 0 /\ fade' = [fade EXCEPT !.left = @ - 1])
    BY <1>3 DEF Step, Faded
  <2>. QED BY <1>1, <2>1
<1>4. CASE Step("calling")
  <2>. DEFINE h == Receive(c, lc[1 + c.lead] # "silence", Head(lc))
  <2>1. turn = "calling" /\ turn' = "answering"
    BY <1>4, FarIs DEF Step
  <2>2. modem' = [modem EXCEPT !["calling"] = Transmit(h)]
    BY <1>4 DEF Step
  <2>3. Clean => line' = [line EXCEPT !["calling"] = Tail(@), !["answering"] = Append(@, Sent(h))]
    BY <1>2, <1>4, FarIs DEF Step, Faded, Clean
  <2>4. DOMAIN line' = Modems
    BY <1>1, <1>4 DEF Step
  <2>. HIDE DEF h
  <2>5. /\ DOMAIN modem' = Modems /\ modem'["calling"] = Transmit(h)
        /\ modem'["answering"] = a
        /\ Clean => line'["calling"] = Tail(lc) /\ line'["answering"] = Append(la, Sent(h))
    BY <1>1, <1>2, <2>2, <2>3
  <2>6. Clean' => Clean
    BY <1>2, <1>3, <1>4 DEF Clean
  <2>7. Clean' => Training(Transmit(h), a, Tail(lc), Append(la, Sent(h)), "answering")
    BY <1>1, <2>1, <2>6, CallerTurn DEF h
  <2>8. fade' \in [to : Modems \cup {"none"}, left : Nat]
    BY <1>2, <1>3, <1>4
  <2>. QED BY <1>2, <2>1, <2>4, <2>5, <2>6, <2>7, <2>8 DEF TrainingInv
<1>5. CASE Step("answering")
  <2>. DEFINE h == Receive(a, la[1 + a.lead] # "silence", Head(la))
  <2>1. turn = "answering" /\ turn' = "calling"
    BY <1>5, FarIs DEF Step
  <2>2. modem' = [modem EXCEPT !["answering"] = Transmit(h)]
    BY <1>5 DEF Step
  <2>3. Clean => line' = [line EXCEPT !["answering"] = Tail(@), !["calling"] = Append(@, Sent(h))]
    BY <1>2, <1>5, FarIs DEF Step, Faded, Clean
  <2>4. DOMAIN line' = Modems
    BY <1>1, <1>5 DEF Step
  <2>. HIDE DEF h
  <2>5. /\ DOMAIN modem' = Modems /\ modem'["answering"] = Transmit(h)
        /\ modem'["calling"] = c
        /\ Clean => line'["answering"] = Tail(la) /\ line'["calling"] = Append(lc, Sent(h))
    BY <1>1, <1>2, <2>2, <2>3
  <2>6. Clean' => Clean
    BY <1>2, <1>3, <1>5 DEF Clean
  <2>7. Clean' => Training(c, Transmit(h), Append(lc, Sent(h)), Tail(la), "calling")
    BY <1>1, <2>1, <2>6, AnswererTurn DEF h
  <2>8. fade' \in [to : Modems \cup {"none"}, left : Nat]
    BY <1>2, <1>3, <1>5
  <2>. QED BY <1>2, <2>1, <2>4, <2>5, <2>6, <2>7, <2>8 DEF TrainingInv
<1>6. ASSUME NEW m \in Modems, Fade(m) PROVE TrainingInv'
  <2>1. PICK length \in FadeLengths : fade' = [to |-> m, left |-> length]
    BY <1>6 DEF Fade
  <2>2. length \in Nat
    BY HandshakeAssumption DEF HandshakeAssumption
  <2>3. ~Clean' /\ fade' \in [to : Modems \cup {"none"}, left : Nat]
    BY <1>2, <2>1, <2>2 DEF Clean
  <2>. QED BY <1>1, <1>6, <2>3 DEF Fade, TrainingInv
<1>7. CASE UNCHANGED vars
  BY <1>7 DEF vars, TrainingInv, Clean
<1>. QED BY <1>4, <1>5, <1>6, <1>7 DEF Next, Modems

-----------------------------------------------------------------------------
(* The theorems. *)

\* On a clean line every state of both modems and of the line between them belongs to a
\* start-up at 1200 or to one at 2400, both modems to the same one, whatever the delay of the
\* line, the limits of the modems and the time the equalizer takes (v22bis_rx.c:191,
\* v22bis_tx.c:92).
THEOREM TrainingInvariant == Spec => []TrainingInv
BY TrainingInit, TrainingNext, PTL DEF Spec

\* What is left of a start-up when the first data comes.
LEMMA DataOf ==
    \A i \in Int :
        /\ "data_2400" \notin SlowFromAnswerer[i] /\ "data_2400" \notin SlowFromCaller[i]
        /\ "data_1200" \notin FastFromAnswerer[i] /\ "data_1200" \notin FastFromCaller[i]
        /\ "data_1200" \in SlowFromAnswerer[i] => i >= 453
        /\ "data_1200" \in SlowFromCaller[i] => i >= 615
        /\ "data_2400" \in FastFromAnswerer[i] => i >= 480
        /\ "data_2400" \in FastFromCaller[i] => i >= 573
BY DEF SlowFromAnswerer, SlowFromCaller, FastFromAnswerer, FastFromCaller

\* The ones of the training last longer than a receiver needs.
LEMMA ThroughTraining ==
    ASSUME NEW s, IsModem(s), NEW n \in Int, n >= 120, Trained(s, n)
    PROVE  s.rx = "normal"
<1>1. s.settling + OnesRepeats <= 120 /\ s.settling \in Nat /\ OnesRepeats \in Nat
  BY Times, Constants, TrainingAssumption DEF IsModem
<1>. QED BY <1>1 DEF Trained

\* Two modems in data have taken the same course, and each decides accordingly.
LEMMA AgreeAtTheEnd ==
    ASSUME NEW c, NEW a, NEW lc, NEW la, NEW t, Training(c, a, lc, la, t),
           c.tx = "normal", c.rx = "normal", a.tx = "normal", a.rx = "normal"
    PROVE  /\ c.rate = a.rate /\ c.rate \in {1200, 2400}
           /\ c.rate = 2400 => c.max = 2400 /\ a.max = 2400 /\ c.sixteen_way /\ a.sixteen_way
           /\ c.rate = 1200 => ~c.sixteen_way /\ ~a.sixteen_way
<1>1. ~Before(c, a, lc, la)
  BY DEF Before
<1>2. PICK k \in Nat \ {0} : Settled(c, a, lc, la, k)
  BY <1>1 DEF Training, After
<1>. DEFINE u == k - Len(lc)
            v == u - Len(la)
<1>3. /\ u <= 0 => CallerAnswers(c)
      /\ Slow(c, a, lc, la, k, u, v) \/ Fast(c, a, lc, la, k, u, v)
  BY <1>2 DEF Settled
<1>4. lc \in Seq(Signals) /\ la \in Seq(Signals)
  BY DEF Training, Sized
<1>5. u \in Int
  BY <1>4, Places
<1>. HIDE DEF u, v
<1>6. u > 0
  BY <1>3, <1>5 DEF CallerAnswers
<1>7. CASE Slow(c, a, lc, la, k, u, v)
  BY <1>6, <1>7 DEF Slow, SlowAnswerer, SlowCaller
<1>8. CASE Fast(c, a, lc, la, k, u, v)
  <2>1. FastAnswerer(a, k, v) /\ FastCaller(c, u)
    BY <1>6, <1>8 DEF Fast
  <2>2. a.rate = 2400 /\ a.max = 2400
    BY <2>1 DEF FastAnswerer
  <2>3. a.sixteen_way
    BY <2>1 DEF FastAnswerer
  <2>4. u >= 573
    BY <1>5, <1>6, <2>1 DEF FastCaller
  <2>5. c.max = 2400 /\ c.rate = 2400
    BY <1>5, <2>1, <2>4 DEF FastCaller
  <2>6. c.sixteen_way
    BY <1>5, <2>1, <2>4 DEF FastCaller
  <2>. QED BY <2>2, <2>3, <2>5, <2>6
<1>. QED BY <1>3, <1>7, <1>8

\* A receiver that is given data is past its training, at the rate of the data.
LEMMA HeardAtTheEnd ==
    ASSUME NEW c, NEW a, NEW lc, NEW la, NEW t, Training(c, a, lc, la, t)
    PROVE  /\ lc # <<>> /\ Head(lc) \in Data =>
                 /\ c.rx = "normal"
                 /\ Head(lc) = "data_2400" => c.sixteen_way
                 /\ Head(lc) # "data_2400" => ~c.sixteen_way
           /\ la # <<>> /\ Head(la) \in Data =>
                 /\ a.rx = "normal"
                 /\ Head(la) = "data_2400" => a.sixteen_way
                 /\ Head(la) # "data_2400" => ~a.sixteen_way
<1>1. IsModem(c) /\ IsModem(a) /\ lc \in Seq(Signals) /\ la \in Seq(Signals)
  BY DEF Training, Sized
<1>2. /\ lc # <<>> => Len(lc) > 0 /\ 1 \in DOMAIN lc /\ Head(lc) = lc[1]
      /\ la # <<>> => Len(la) > 0 /\ 1 \in DOMAIN la /\ Head(la) = la[1]
      /\ Len(lc) \in Nat /\ Len(la) \in Nat
  BY <1>1
<1>3. CASE Before(c, a, lc, la)
  <2>1. ASSUME lc # <<>> PROVE Head(lc) \notin Data
    BY <1>2, <1>3, <2>1 DEF Before, Listening, Answering, Rising, All, Data
  <2>2. ASSUME la # <<>> PROVE Head(la) \notin Data
    <3>1. CASE Listening(c, a, lc, la)
      BY <1>2, <2>2, <3>1 DEF Listening, All, Data
    <3>2. CASE Answering(c, a, lc, la)
      <4>1. PICK f \in Int : Burst(c, la, f)
        BY <3>2 DEF Answering
      <4>2. la[1] \in {"silence", "S1", "S11"}
        <5>1. 1 < f \/ 1 >= f
          OBVIOUS
        <5>. QED BY <1>2, <2>2, <4>1, <5>1 DEF Burst
      <4>. QED BY <1>2, <2>2, <4>2 DEF Data
    <3>. QED BY <1>3, <3>1, <3>2 DEF Before
  <2>. QED BY <2>1, <2>2
<1>4. CASE After(c, a, lc, la)
  <2>1. PICK k \in Nat \ {0} : Settled(c, a, lc, la, k)
    BY <1>4 DEF After
  <2>. DEFINE u == k - Len(lc)
              v == u - Len(la)
  <2>2. Slow(c, a, lc, la, k, u, v) \/ Fast(c, a, lc, la, k, u, v)
    BY <2>1 DEF Settled
  <2>3. u \in Int /\ v \in Int /\ u <= k /\ v <= u /\ (u > 0 => u \in Nat)
    BY <1>2
  <2>. HIDE DEF u, v
  <2>4. CASE Slow(c, a, lc, la, k, u, v)
    <3>1. SlowAnswerer(a, k) /\ (u > 0 => SlowCaller(c, u))
          /\ Follows(lc, SlowFromAnswerer, u) /\ Follows(la, SlowFromCaller, v)
      BY <2>4 DEF Slow
    <3>2. ASSUME lc # <<>>, Head(lc) \in Data
          PROVE  c.rx = "normal" /\ Head(lc) = "data_1200" /\ ~c.sixteen_way
      <4>1. Head(lc) \in SlowFromAnswerer[u]
        BY <1>1, <1>2, <2>3, <3>1, <3>2, FollowsOn
      <4>2. Head(lc) = "data_1200" /\ u >= 453
        BY <2>3, <3>2, <4>1, DataOf DEF Data
      <4>3. SlowCaller(c, u)
        BY <2>3, <3>1, <4>2
      <4>. QED BY <2>3, <4>2, <4>3 DEF SlowCaller
    <3>3. ASSUME la # <<>>, Head(la) \in Data
          PROVE  a.rx = "normal" /\ Head(la) = "data_1200" /\ ~a.sixteen_way
      <4>1. Head(la) \in SlowFromCaller[v]
        BY <1>1, <1>2, <2>3, <3>1, <3>3, FollowsOn
      <4>2. Head(la) = "data_1200" /\ v >= 615
        BY <2>3, <3>3, <4>1, DataOf DEF Data
      <4>3. ~(k <= 460)
        BY <2>3, <4>2
      <4>. QED BY <3>1, <4>2, <4>3 DEF SlowAnswerer
    <3>. QED BY <3>2, <3>3
  <2>5. CASE Fast(c, a, lc, la, k, u, v)
    <3>1. FastAnswerer(a, k, v) /\ (u > 0 => FastCaller(c, u))
          /\ Follows(lc, FastFromAnswerer, u) /\ Follows(la, FastFromCaller, v)
      BY <2>5 DEF Fast
    <3>2. ASSUME lc # <<>>, Head(lc) \in Data
          PROVE  c.rx = "normal" /\ Head(lc) = "data_2400" /\ c.sixteen_way
      <4>1. Head(lc) \in FastFromAnswerer[u]
        BY <1>1, <1>2, <2>3, <3>1, <3>2, FollowsOn
      <4>2. Head(lc) = "data_2400" /\ u >= 480
        BY <2>3, <3>2, <4>1, DataOf DEF Data
      <4>3. FastCaller(c, u)
        BY <2>3, <3>1, <4>2
      <4>4. c.sixteen_way /\ Trained(c, Larger(u - 360, 0))
        BY <2>3, <4>2, <4>3 DEF FastCaller
      <4>5. Larger(u - 360, 0) \in Int /\ Larger(u - 360, 0) >= 120
        BY <2>3, <4>2 DEF Larger
      <4>. QED BY <1>1, <4>2, <4>4, <4>5, ThroughTraining
    <3>3. ASSUME la # <<>>, Head(la) \in Data
          PROVE  a.rx = "normal" /\ Head(la) = "data_2400" /\ a.sixteen_way
      <4>1. Head(la) \in FastFromCaller[v]
        BY <1>1, <1>2, <2>3, <3>1, <3>3, FollowsOn
      <4>2. Head(la) = "data_2400" /\ v >= 573
        BY <2>3, <3>3, <4>1, DataOf DEF Data
      <4>3. k >= 573
        BY <2>3, <4>2
      <4>4. a.sixteen_way
        <5>1. a.rx_count \in Nat
          BY <1>1 DEF IsModem
        <5>2. ~a.sixteen_way => a.rx_count >= k /\ a.rx_count < 270
          BY <3>1 DEF FastAnswerer
        <5>. QED BY <4>3, <5>1, <5>2
      <4>5. Trained(a, Larger(v - 453, 0))
        BY <3>1, <4>4 DEF FastAnswerer
      <4>6. Larger(v - 453, 0) \in Int /\ Larger(v - 453, 0) >= 120
        BY <2>3, <4>2 DEF Larger
      <4>. QED BY <1>1, <4>2, <4>4, <4>5, <4>6, ThroughTraining
    <3>. QED BY <3>2, <3>3
  <2>. QED BY <2>2, <2>4, <2>5
<1>. QED BY <1>3, <1>4 DEF Training

\* When both modems have gone to data on a clean line they use one rate, within the limits
\* of both, and decide sixteen-way just when it is 2400 (v22bis_rx.c:255, modem_v22bis.c:358).
THEOREM RatesAgreed == Spec => []RatesAgree
<1>1. TrainingInv => RatesAgree
  <2>. SUFFICES ASSUME TrainingInv, Clean, \A m \in Modems : InData(m)
                PROVE  /\ modem["calling"].rate = modem["answering"].rate
                       /\ \A m \in Modems :
                             /\ modem[m].rate <= modem[m].max
                             /\ modem[m].sixteen_way = (modem[m].rate = 2400)
    BY DEF RatesAgree
  <2>. DEFINE c == modem["calling"]
              a == modem["answering"]
  <2>1. Training(c, a, line["calling"], line["answering"], turn)
    BY DEF TrainingInv
  <2>2. c.tx = "normal" /\ c.rx = "normal" /\ a.tx = "normal" /\ a.rx = "normal"
    BY DEF InData, Modems
  <2>. HIDE DEF c, a
  <2>3. /\ c.rate = a.rate /\ c.rate \in {1200, 2400}
        /\ c.rate = 2400 => c.max = 2400 /\ a.max = 2400 /\ c.sixteen_way /\ a.sixteen_way
        /\ c.rate = 1200 => ~c.sixteen_way /\ ~a.sixteen_way
    BY <2>1, <2>2, AgreeAtTheEnd
  <2>4. c.max \in {1200, 2400} /\ a.max \in {1200, 2400}
    BY <2>1 DEF Training, IsModem
  <2>5. c.sixteen_way \in BOOLEAN /\ a.sixteen_way \in BOOLEAN
    BY <2>1 DEF Training, IsModem
  <2>6. c.rate <= c.max /\ a.rate <= a.max
    <3>1. /\ c.rate = a.rate /\ c.rate \in {1200, 2400}
          /\ c.rate = 2400 => c.max = 2400 /\ a.max = 2400
      BY <2>3
    <3>. QED BY <2>4, <3>1
  <2>7. c.sixteen_way = (c.rate = 2400) /\ a.sixteen_way = (a.rate = 2400)
    <3>1. 1200 # 2400
      OBVIOUS
    <3>. QED BY <2>3, <2>5, <3>1
  <2>. QED BY <2>3, <2>6, <2>7 DEF Modems, c, a
<1>. QED BY <1>1, TrainingInvariant, PTL

\* On a clean line data never reaches a receiver that is still training or is at the other
\* rate: the timers of the sender outlast the training of the receiver (v22bis_tx.c:128,
\* v22bis_rx.c:302).
THEOREM ListenerThere == Spec => []DataHasListener
<1>1. TrainingInv => DataHasListener
  <2>. SUFFICES ASSUME TrainingInv, Clean,
                       NEW m \in Modems, line[m] # <<>>, Head(line[m]) \in Data
                PROVE  /\ modem[m].rx = "normal"
                       /\ modem[m].sixteen_way = (Head(line[m]) = "data_2400")
    BY DEF DataHasListener
  <2>. DEFINE c == modem["calling"]
              a == modem["answering"]
              s == modem[m]
              first == Head(line[m])
  <2>1. Training(c, a, line["calling"], line["answering"], turn)
    BY DEF TrainingInv
  <2>2. /\ s.rx = "normal"
        /\ first = "data_2400" => s.sixteen_way
        /\ first # "data_2400" => ~s.sixteen_way
    BY <2>1, HeardAtTheEnd DEF Modems
  <2>3. s.sixteen_way \in BOOLEAN
    BY <2>1 DEF Training, IsModem, Modems
  <2>. HIDE DEF s, first
  <2>4. s.sixteen_way = (first = "data_2400")
    BY <2>2, <2>3
  <2>. QED BY <2>2, <2>4 DEF s, first
<1>. QED BY <1>1, TrainingInvariant, PTL

=============================================================================

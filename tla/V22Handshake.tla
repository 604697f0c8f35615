---------------------------- MODULE V22Handshake ----------------------------
(***************************************************************************)
(* The V.22bis start-up: a calling and an answering modem, each with a     *)
(* receiver and a transmitter stage that drive each other, over a line     *)
(* that delays symbols and may fade once.                                  *)
(*                                                                         *)
(* Time goes by symbols (600 a second).  The modems take turns, as the     *)
(* lockstep of the audio relay has it; in its turn a modem receives one    *)
(* symbol and then sends one.  Signals are what the receiver's decisions   *)
(* can tell apart: a steady dibit (U11), the alternating dibits of S1,     *)
(* scrambled ones, data.  Filters, loops and equalizer are a lag between   *)
(* a symbol and its decision; the level detector is faster.                *)
(***************************************************************************)
EXTENDS Naturals, Sequences, FiniteSets

CONSTANTS
    Baud,           \* V22_BAUD
    WarmUp,         \* WARMUP_SAMPLES, in symbols
    Acquire,        \* ACQUIRE_SYMBOLS
    S1Repeats,      \* alternations that make an S1
    OnesRepeats,    \* symbols of ones that end the training for 2400
    MaxRates,       \* values of max_bit_rate (-r)
    Lags,           \* symbols from sender to decision, the line included
    Leads,          \* symbols by which the level detector is ahead of the decisions
    Settlings,      \* symbols at 2400 before the equalizer gets 16-way decisions right
    FadeTimes, FadeLengths      \* bounds: when the line may fade, for how long

ASSUME HandshakeAssumption ==
    /\ {Baud, WarmUp, Acquire, S1Repeats, OnesRepeats} \subseteq Nat
    /\ MaxRates \subseteq {1200, 2400}
    /\ Lags \subseteq Nat /\ Leads \subseteq Nat /\ Settlings \subseteq Nat
    /\ \A lag \in Lags, lead \in Leads : lag > lead
    /\ FadeTimes \subseteq Nat /\ IsFiniteSet(FadeTimes)
    /\ FadeLengths \subseteq Nat \ {0}

VARIABLES
    modem,          \* the v22bis_t of both sides
    line,           \* symbols under way to each side
    turn,           \* whose turn it is
    clock,          \* symbols so far, up to the last of FadeTimes
    fade            \* the side that hears a fade and the symbols it still takes

vars == <<modem, line, turn, clock, fade>>

Modems == {"calling", "answering"}
Far(m) == CHOOSE n \in Modems : n # m

RxStages == {"normal", "acquisition", "unscrambled_ones", "unscrambled_sustaining",
             "scrambled_1200", "scrambled_1200_sustaining", "wait_for_2400"}
TxStages == {"normal", "silence", "U11", "S1", "S11", "timed_S11", "S1111"}
Data == {"data_1200", "data_2400"}
Signals == {"silence", "U11", "S1", "S11", "S1111"} \cup Data

Symbols(ms) == (ms * Baud) \div 1000                        \* MS_SYM

\* What the times of the code need: a level detector no further ahead than the receiver
\* takes to acquire, and an equalizer that settles while the ones at 2400 last.
ASSUME TrainingAssumption ==
    /\ Baud = 600 /\ S1Repeats < Symbols(100) /\ OnesRepeats > 0
    /\ \A lead \in Leads : lead <= WarmUp + Acquire
    /\ \A settling \in Settlings : settling + OnesRepeats <= Symbols(200)

-----------------------------------------------------------------------------
(* The transmitter: training_symbol, data_symbol. *)

\* An idle data source gives ones, which look like the training signals.
Sent(s) ==
    CASE s.tx = "normal" /\ s.busy  -> IF s.rate = 1200 THEN "data_1200" ELSE "data_2400"
      [] s.tx = "normal" /\ ~s.busy -> IF s.rate = 1200 THEN "S11" ELSE "S1111"
      [] s.tx = "timed_S11"         -> "S11"
      [] OTHER                      -> s.tx

\* A stage of the transmitter that lasts for a number of symbols.
TxTimed(s, symbols, next, start) ==
    IF s.tx_count + 1 >= symbols
    THEN [s EXCEPT !.tx = next, !.tx_count = start]
    ELSE [s EXCEPT !.tx_count = @ + 1]

\* Mutation of Transmit: the scrambled ones are not timed long enough.
TransmitEarly(s) ==
    CASE s.tx = "silence" /\ ~s.calling -> TxTimed(s, Symbols(75), "U11", 0)
      [] s.tx = "S1" -> TxTimed(s, Symbols(100), IF s.calling THEN "S11" ELSE "timed_S11",
                                IF s.calling THEN 0 ELSE Symbols(756 - (600 - 100)))
      [] s.tx = "timed_S11" ->
            TxTimed(s, Symbols(450), IF s.rate = 2400 THEN "S1111" ELSE "normal", 0)
      [] s.tx = "S1111" -> TxTimed(s, Symbols(200), "normal", 0)
      [] OTHER -> s

Transmit(s) ==
    CASE s.tx = "silence" /\ ~s.calling -> TxTimed(s, Symbols(75), "U11", 0)
      [] s.tx = "S1" /\ s.calling  -> TxTimed(s, Symbols(100), "S11", 0)
      [] s.tx = "S1" /\ ~s.calling ->
            TxTimed(s, Symbols(100), "timed_S11", Symbols(756 - (600 - 100)))
      [] s.tx = "timed_S11" ->
            TxTimed(s, Symbols(756), IF s.rate = 2400 THEN "S1111" ELSE "normal", 0)
      [] s.tx = "S1111" -> TxTimed(s, Symbols(200), "normal", 0)
      [] OTHER -> s                             \* U11, S11: until the receiver changes it

-----------------------------------------------------------------------------
(* The receiver, one decision after another: process_baud. *)

Steady(s, signal)      == s.last = "U11" /\ signal = "U11"
Alternating(s, signal) == s.last \in {"U11", "S1"} /\ signal = "S1"
Ones(s, signal)        == signal = "S1111" /\ s.settle = 0

RxTo(s, stage) == [s EXCEPT !.rx = stage, !.rx_count = 0, !.repeats = 0]
TxTo(s, stage) == [s EXCEPT !.tx = stage, !.tx_count = 0]

\* SYMBOL_ACQUISITION
AcquireTiming(s) ==
    IF s.rx_count + 1 >= Acquire
    THEN [RxTo(s, IF s.calling THEN "unscrambled_ones" ELSE "scrambled_1200")
            EXCEPT !.rate = 1200]
    ELSE [s EXCEPT !.rx_count = @ + 1]

\* UNSCRAMBLED_ONES: the caller answers a steady signal, after a fixed time.
UnscrambledOnes(s, signal) ==
    LET repeats == IF Steady(s, signal) THEN s.repeats + 1 ELSE 0
        next == RxTo(s, "unscrambled_sustaining")
    IN  IF s.rx_count + 1 # Symbols(155 + 456)
        THEN [s EXCEPT !.rx_count = @ + 1, !.repeats = repeats]
        ELSE IF Steady(s, signal) /\ repeats >= Symbols(456)
             THEN TxTo(next, IF s.max = 2400 THEN "S1" ELSE "S11")
             ELSE next

UnscrambledSustaining(s, signal) ==
    IF Steady(s, signal) THEN s ELSE TxTo(RxTo(s, "scrambled_1200"), "timed_S11")

\* Mutation of S1Seen: a modem limited to 1200 accepts 2400.
S1SeenUnasked(s, signal) ==
    ~Alternating(s, signal) /\ s.repeats >= S1Repeats /\ s.last = "S1"

\* SCRAMBLED_ONES_AT_1200 while at 1200: the end of an S1 that was long enough.
S1Seen(s, signal) ==
    ~Alternating(s, signal) /\ s.repeats >= S1Repeats /\ s.last = "S1" /\ s.max = 2400

\* Mutation of WatchForS1: the answerer does not answer the S1.
WatchForS1Silent(s, signal) ==
    [s EXCEPT !.repeats = IF Alternating(s, signal) THEN @ + 1 ELSE 0,
              !.rate = IF S1Seen(s, signal) THEN 2400 ELSE @]

WatchForS1(s, signal) ==
    LET t == [s EXCEPT !.repeats = IF Alternating(s, signal) THEN @ + 1 ELSE 0,
                       !.rate = IF S1Seen(s, signal) THEN 2400 ELSE @]
    IN  IF S1Seen(s, signal) /\ ~s.calling THEN TxTo(t, "S1") ELSE t

\* SCRAMBLED_ONES_AT_1200
Scrambled1200(s0, signal) ==
    LET s == [s0 EXCEPT !.rx_count = @ + 1]
        t == WatchForS1(s, signal)
        due == IF s.calling THEN Symbols(100 + 450) ELSE Symbols(450)
    IN  CASE s.rate = 1200 /\ s.rx_count >= Symbols(270) ->
                [TxTo(t, "timed_S11") EXCEPT
                    !.rx = IF s.calling THEN "normal" ELSE "scrambled_1200_sustaining"]
          [] s.rate = 1200 /\ s.rx_count < Symbols(270) -> t
          [] s.rate = 2400 /\ s.rx_count >= due ->
                [s EXCEPT !.sixteen_way = TRUE, !.repeats = 0, !.rx = "wait_for_2400",
                           !.settle = s.settling]
          [] OTHER -> s

\* SCRAMBLED_ONES_AT_1200_SUSTAINING: the answerer at 1200.
Scrambled1200Sustaining(s) ==
    [s EXCEPT !.rx_count = @ + 1,
              !.rx = IF s.rx_count + 1 > Symbols(270 + 765) THEN "normal" ELSE @]

\* WAIT_FOR_SCRAMBLED_ONES_AT_2400
WaitFor2400(s, signal) ==
    IF ~Ones(s, signal)
    THEN [s EXCEPT !.repeats = 0,
                   !.settle = IF signal \in {"S1111", "data_2400"} /\ @ > 0 THEN @ - 1 ELSE @]
    ELSE [s EXCEPT !.repeats = @ + 1,
                   !.rx = IF s.repeats + 1 >= OnesRepeats THEN "normal" ELSE @]

ProcessBaud(s, signal) ==
    [CASE s.rx = "acquisition"               -> AcquireTiming(s)
       [] s.rx = "unscrambled_ones"          -> UnscrambledOnes(s, signal)
       [] s.rx = "unscrambled_sustaining"    -> UnscrambledSustaining(s, signal)
       [] s.rx = "scrambled_1200"            -> Scrambled1200(s, signal)
       [] s.rx = "scrambled_1200_sustaining" -> Scrambled1200Sustaining(s)
       [] s.rx = "wait_for_2400"             -> WaitFor2400(s, signal)
       [] s.rx = "normal"                    -> s
     EXCEPT !.last = signal]

\* Mutation of AcquireReset: the stage of the receiver is kept.
AcquireResetKeepsStage(s) ==
    [s EXCEPT !.carrier = TRUE, !.acq = 0, !.last = "silence", !.repeats = 0]

\* acquire_reset: a carrier has appeared.
AcquireReset(s) ==
    [RxTo(s, "acquisition") EXCEPT
        !.carrier = TRUE, !.acq = 0, !.last = "silence", !.sixteen_way = FALSE, !.rate = 1200]

\* v22bis_rx
Receive(s, level, signal) ==
    CASE ~level                      -> [s EXCEPT !.carrier = FALSE]
      [] level /\ ~s.carrier         -> AcquireReset(s)
      [] level /\ s.carrier /\ s.acq < WarmUp -> [s EXCEPT !.acq = @ + 1]
      [] OTHER                       -> ProcessBaud(s, signal)
-----------------------------------------------------------------------------

\* v22bis_init
New(calling, max, busy, lead, settling) ==
    [calling |-> calling, max |-> max, busy |-> busy, lead |-> lead, settling |-> settling,
     rate |-> 0, tx |-> "silence", tx_count |-> 0, rx |-> "acquisition", rx_count |-> 0,
     repeats |-> 0, last |-> "silence", carrier |-> FALSE, sixteen_way |-> FALSE,
     acq |-> 0, settle |-> 0]

Init ==
    /\ \E max \in [Modems -> MaxRates], busy \in BOOLEAN, lead \in Leads, settling \in Settlings :
          modem = [m \in Modems |-> New(m = "calling", max[m], busy, lead, settling)]
    /\ \E lag \in Lags : line = [m \in Modems |-> [i \in 1..lag |-> "silence"]]
    /\ turn = "calling" /\ clock = 0
    /\ fade = [to |-> "none", left |-> 0]

LastTime == IF FadeTimes = {} THEN 0 ELSE CHOOSE t \in FadeTimes : \A u \in FadeTimes : u <= t
Faded(m) == fade.to = m /\ fade.left > 0

\* process_block: v22bis_rx of the samples that came, v22bis_tx of as many.
Step(m) ==
    LET s == modem[m]
        heard == Receive(s, line[m][1 + s.lead] # "silence", Head(line[m]))
        out == IF Faded(Far(m)) THEN "silence" ELSE Sent(heard)
    IN  /\ turn = m /\ turn' = Far(m)
        /\ modem' = [modem EXCEPT ![m] = Transmit(heard)]
        /\ line' = [line EXCEPT ![m] = Tail(@), ![Far(m)] = Append(@, out)]
        /\ fade' = IF Faded(Far(m)) THEN [fade EXCEPT !.left = @ - 1] ELSE fade
        /\ clock' = IF m = "answering" /\ clock <= LastTime THEN clock + 1 ELSE clock

\* The line fades once, in one direction.
Fade(m) ==
    /\ fade.to = "none" /\ clock \in FadeTimes /\ turn = "calling"
    /\ \E length \in FadeLengths : fade' = [to |-> m, left |-> length]
    /\ UNCHANGED <<modem, line, turn, clock>>

Next == \E m \in Modems : Step(m) \/ Fade(m)

Spec == Init /\ [][Next]_vars
\* The audio clock of the line gives every side its turn.
FairSpec == Spec /\ WF_vars(\E m \in Modems : Step(m))

TypeOK ==
    /\ turn \in Modems /\ clock \in 0..(LastTime + 1)
    /\ \A m \in Modems :
        /\ modem[m].tx \in TxStages /\ modem[m].rx \in RxStages
        /\ modem[m].rate \in {0, 1200, 2400} /\ modem[m].max \in MaxRates
        /\ modem[m].sixteen_way \in BOOLEAN
        /\ \A i \in DOMAIN line[m] : line[m][i] \in Signals

Clean == fade.to = "none"
InData(m) == modem[m].tx = "normal" /\ modem[m].rx = "normal"

\* When both modems have gone to data on a clean line they use the same rate,
\* none above what either allows, and decide sixteen-way just when it is 2400.
RatesAgree ==
    Clean /\ (\A m \in Modems : InData(m)) =>
        /\ modem["calling"].rate = modem["answering"].rate
        /\ \A m \in Modems :
              /\ modem[m].rate <= modem[m].max
              /\ modem[m].sixteen_way = (modem[m].rate = 2400)

\* No data is lost to the start-up: the timers of one modem let it send data only
\* when the receiver of the other is through with training, at the same rate.
DataHasListener ==
    Clean => \A m \in Modems : line[m] # <<>> /\ Head(line[m]) \in Data =>
        /\ modem[m].rx = "normal"
        /\ modem[m].sixteen_way = (Head(line[m]) = "data_2400")

\* On a clean line the start-up ends with both modems in data, whatever their limits.
HandshakeCompletes == []Clean => <>[](\A m \in Modems : InData(m))

\* A fade, whenever it comes, does not stop the start-up half way: both transmitters
\* go to data, and a receiver that has not is waiting for ones at 2400.
FadeSurvived ==
    <>[](\A m \in Modems : /\ modem[m].tx = "normal"
                            /\ modem[m].rx \in {"normal", "wait_for_2400"})
=============================================================================

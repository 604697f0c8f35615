----------------------------- MODULE FskFraming -----------------------------
(***************************************************************************)
(* The asynchronous framer and deframer of the FSK modem, sample by        *)
(* sample: a tone (mark TRUE, space FALSE) for each sample sent, a byte    *)
(* (or none) for each sample heard.  A byte is the sequence of its bits,   *)
(* least significant first.  Both ends have the same bit clock, a whole    *)
(* number of samples per bit; the discriminator decides at once.           *)
(***************************************************************************)
EXTENDS Naturals, Sequences

CONSTANTS
    DataBits,       \* fr.data_bits (5..8)
    Parity,         \* fr.parity: "N", "E", "O"
    StopBits,       \* fr.stop_bits (1..2)
    BitSamples,     \* samples per bit: 0x10000 / bit_inc
    RxWindow,       \* rx_win: samples before the discriminator decides
    OnHold, OffHold \* carrier_on_hold, carrier_off_hold

ASSUME FramingAssumption ==
    /\ DataBits \in Nat \ {0} /\ Parity \in {"N", "E", "O"} /\ StopBits \in Nat \ {0}
    /\ BitSamples \in Nat \ {0, 1} /\ RxWindow \in Nat \ {0}
    /\ OnHold \in Nat \ {0} /\ OffHold \in Nat \ {0}

Bytes == [1..DataBits -> BOOLEAN]
NoByte == <<>>
BadFrame == <<"badFrame">>

\* compute_parity_bit
ParityBit(byte) ==
    LET odd == Len(SelectSeq(byte, LAMBDA bit : bit)) % 2 = 1
    IN  CASE Parity = "N" -> FALSE [] Parity = "E" -> odd [] Parity = "O" -> ~odd

\* bit_tick: the last sample of a bit.
Ticks(phase) == phase + 1 >= BitSamples
Tick(phase) == (phase + 1) % BitSamples

-----------------------------------------------------------------------------
(* The framer, fsk_tx_t; queue is what it may pull bytes from. *)

TxStart == [state |-> "idle", byte |-> NoByte, index |-> 0, phase |-> 0,
            tone |-> TRUE, break |-> FALSE]

\* start_frame: the framer and the queue after it.
StartFrame(t, queue) ==
    IF queue = <<>>
    THEN <<[t EXCEPT !.state = "idle", !.byte = NoByte, !.index = 0, !.tone = TRUE], queue>>
    ELSE <<[t EXCEPT !.state = "start", !.byte = Head(queue), !.index = 0, !.tone = FALSE],
           Tail(queue)>>

TxTo(t, state, tone) == [t EXCEPT !.state = state, !.index = 0, !.tone = tone]

\* tx_advance: on to the next bit.
TxAdvance(t, queue) ==
    CASE t.state = "idle" -> StartFrame(t, queue)
      [] t.state = "start" -> <<TxTo(t, "data", t.byte[1]), queue>>
      [] t.state = "data" /\ t.index + 1 < DataBits ->
            <<[t EXCEPT !.index = @ + 1, !.tone = t.byte[t.index + 2]], queue>>
      [] t.state = "data" /\ t.index + 1 >= DataBits /\ Parity # "N" ->
            <<TxTo(t, "parity", ParityBit(t.byte)), queue>>
      [] t.state = "data" /\ t.index + 1 >= DataBits /\ Parity = "N" ->
            <<TxTo(t, "stop", TRUE), queue>>
      [] t.state = "parity" -> <<TxTo(t, "stop", TRUE), queue>>
      [] t.state = "stop" /\ t.index + 1 < StopBits ->
            <<[t EXCEPT !.index = @ + 1, !.tone = TRUE], queue>>
      [] t.state = "stop" /\ t.index + 1 >= StopBits -> StartFrame(t, queue)

\* fsk_tx_sample: the tone, the framer and the queue.  A break forces space and stops
\* the bit clock.
TxSample(t, queue) ==
    LET now == IF t.break THEN [t EXCEPT !.tone = FALSE] ELSE t
        then == IF now.break \/ ~Ticks(now.phase) THEN <<now, queue>>
                ELSE TxAdvance(now, queue)
    IN  [tone  |-> now.tone,
         tx    |-> IF now.break THEN now ELSE [then[1] EXCEPT !.phase = Tick(@)],
         queue |-> then[2]]

-----------------------------------------------------------------------------
(* The deframer, fsk_rx_t. *)

RxStart == [state |-> "idleMark", bits |-> <<>>, stop |-> 0, phase |-> 0, warm |-> 0,
            streak |-> 0, carrier |-> FALSE]

\* rx_sense_bit: the carrier appears and disappears after a hold of its own.
SenseCarrier(r, level) ==
    IF level = r.carrier THEN [r EXCEPT !.streak = 0]
    ELSE IF r.streak + 1 < (IF level THEN OnHold ELSE OffHold) THEN [r EXCEPT !.streak = @ + 1]
    ELSE [r EXCEPT !.streak = 0, !.carrier = level]

RxTo(r, state) == [r EXCEPT !.state = state]
RxIdle(r) == [r EXCEPT !.state = "idleMark", !.bits = <<>>, !.stop = 0, !.phase = 0]

\* A bit is sampled in its middle; the byte that is complete with it, if one is.
RxBit(r, bit) ==
    CASE r.state = "startValidate" ->
            <<IF bit THEN RxIdle(r) ELSE [r EXCEPT !.state = "data", !.bits = <<>>], NoByte>>
      [] r.state = "data" ->
            <<[r EXCEPT !.bits = Append(@, bit),
                        !.state = IF Len(r.bits) + 1 < DataBits THEN "data"
                                  ELSE IF Parity # "N" THEN "parity" ELSE "stop"], NoByte>>
      [] r.state = "parity" ->
            IF bit = ParityBit(r.bits) THEN <<RxTo(r, "stop"), NoByte>>
            ELSE <<RxIdle(r), BadFrame>>
      [] r.state = "stop" /\ ~bit -> <<RxIdle(r), BadFrame>>
      [] r.state = "stop" /\ bit /\ r.stop + 1 < StopBits -> <<[r EXCEPT !.stop = @ + 1], NoByte>>
      [] r.state = "stop" /\ bit /\ r.stop + 1 >= StopBits -> <<RxIdle(r), r.bits>>

\* fsk_rx_sample: the deframer and the byte.
RxSample(r, level, bit) ==
    IF r.warm + 1 < RxWindow THEN <<[r EXCEPT !.warm = @ + 1], NoByte>>
    ELSE LET s == SenseCarrier([r EXCEPT !.warm = RxWindow], level)
         IN  CASE s.state = "idleMark" /\ bit  -> <<s, NoByte>>
               [] s.state = "idleMark" /\ ~bit ->
                    <<[s EXCEPT !.state = "startValidate", !.phase = BitSamples \div 2], NoByte>>
               [] s.state # "idleMark" /\ ~Ticks(s.phase) ->
                    <<[s EXCEPT !.phase = Tick(@)], NoByte>>
               [] s.state # "idleMark" /\ Ticks(s.phase) ->
                    RxBit([s EXCEPT !.phase = Tick(@)], bit)
=============================================================================
